---- MODULE Spec2Model ----
(***************************************************************************)
(* Model of the TCF / ICF / VCF codecs of codec-cdn-from-scratch:          *)
(*   src/src/codecs/text/tcf-codec.ts   (TextCodec)                        *)
(*   src/src/codecs/image/icf-codec.ts  (ImageCodec)                       *)
(*   src/src/codecs/video/vcf-codec.ts  (VideoCodec)                       *)
(*                                                                         *)
(* A Buffer is a sequence of bytes (0..255).  A string is the sequence of  *)
(* its character codes; every string of the model is ASCII, so its UTF-8   *)
(* bytes are its character codes.  JSON text is produced and parsed byte   *)
(* by byte.                                                                *)
(***************************************************************************)
EXTENDS Integers, Sequences, FiniteSets, TLC

(***************************************************************************)
(* Bounds of the model.                                                    *)
(***************************************************************************)
\* longest text input drawn symbol by symbol
MaxTextLen == 3
\* longest run of one repeated byte put in front of a text input
MaxRun == 256
\* largest image of the model
MaxImageWidth == 2
MaxImageHeight == 1
\* most frames of a video input, and its largest gopSize
MaxFrames == 2
MaxGop == 2
CoeffSteps == 20
ComponentStep == 17
MaxGopFrames == 6
MaxGopSize == 4

(***************************************************************************)
(* String literals of the source, as character codes.                      *)
(***************************************************************************)
s_TCF1 == <<84, 67, 70, 49>>  \* "TCF1"
s_magic == <<109, 97, 103, 105, 99>>  \* "magic"
s_version == <<118, 101, 114, 115, 105, 111, 110>>  \* "version"
s_flags == <<102, 108, 97, 103, 115>>  \* "flags"
s_originalSize == <<111, 114, 105, 103, 105, 110, 97, 108, 83, 105, 122, 101>>  \* "originalSize"
s_compressedSize == <<99, 111, 109, 112, 114, 101, 115, 115, 101, 100, 83, 105, 122, 101>>  \* "compressedSize"
s_checksum == <<99, 104, 101, 99, 107, 115, 117, 109>>  \* "checksum"

(***************************************************************************)
(* Buffers.                                                                *)
(***************************************************************************)
Min(a, b) == IF a < b THEN a ELSE b
Max(a, b) == IF a > b THEN a ELSE b

\* Buffer.subarray(start, end): bytes start .. end-1 (0-based); an index past
\* the end is the end, a negative index counts from the end
ClampIndex(i, len) == IF i < 0 THEN Max(len + i, 0) ELSE Min(i, len)

subarray(buf, start, end) ==
  LET s == ClampIndex(start, Len(buf))
      e == ClampIndex(end, Len(buf))
  IN  IF e <= s THEN <<>> ELSE SubSeq(buf, s + 1, e)

\* n copies of byte b
Repeat(b, n) == [i \in 1..n |-> b]

\* Buffer.from(number[]): every element is stored modulo 256
ToUint8(n) == n % 256

\* buf.writeUInt32LE(n, 0) on a fresh 4-byte buffer
writeUInt32LE(n) ==
  << n % 256, (n \div 256) % 256, (n \div 65536) % 256, (n \div 16777216) % 256 >>

\* buf.readUInt32LE(off): the value is hi * 2^24 + lo, kept in two parts
\* because it may exceed the model checker's integers
readUInt32LE(buf, off) ==
  [ lo |-> buf[off + 1] + 256 * buf[off + 2] + 65536 * buf[off + 3],
    hi |-> buf[off + 4] ]

\* n < 8 + u, for a length n and an unsigned 32-bit u (no overflow)
LessThanOffsetPlus(n, base, u) ==
  LET m == n - base
  IN  \/ m < 0
      \/ (m \div 16777216) < u.hi
      \/ ((m \div 16777216) = u.hi /\ (m % 16777216) < u.lo)

\* buf.toString('ascii'): Node clears the highest bit of every byte
toStringAscii(buf) == [i \in 1..Len(buf) |-> buf[i] % 128]

(***************************************************************************)
(* createHash('sha256').update(data).digest('hex').  SHA-256 is taken as   *)
(* collision free: two digests are equal exactly when the data are equal.  *)
(* The digest of the model is the lower-case hex text of the data.         *)
(***************************************************************************)
HexDigit(n) == IF n < 10 THEN 48 + n ELSE 87 + n

sha256Hex(data) ==
  [i \in 1..(2 * Len(data)) |->
     LET b == data[(i + 1) \div 2]
     IN  IF i % 2 = 1 THEN HexDigit(b \div 16) ELSE HexDigit(b % 16)]

(***************************************************************************)
(* JSON values: numbers (integers), strings, arrays, objects (ordered),    *)
(* null, and undefined for a field that is absent.                         *)
(***************************************************************************)
JNum(n) == [t |-> "num", v |-> n]
JStr(s) == [t |-> "str", v |-> s]
JArr(a) == [t |-> "arr", v |-> a]
JObj(m) == [t |-> "obj", v |-> m]
JUndef == [t |-> "undef", v |-> 0]
JNull == [t |-> "null", v |-> 0]

\* strict equality (===) of two JSON primitives
StrictEq(a, b) == a.t = b.t /\ a.v = b.v

\* obj.key : the last member with that key, undefined when there is none or
\* when obj is not an object
JGet(obj, key) ==
  IF obj.t # "obj" THEN JUndef
  ELSE LET hits == {i \in 1..Len(obj.v) : obj.v[i][1] = key}
       IN  IF hits = {} THEN JUndef
           ELSE obj.v[CHOOSE i \in hits : \A j \in hits : j <= i][2]

RECURSIVE NatToBytes(_)
NatToBytes(n) ==
  IF n < 10 THEN <<48 + n>> ELSE NatToBytes(n \div 10) \o <<48 + (n % 10)>>

NumToBytes(n) == IF n < 0 THEN <<45>> \o NatToBytes(-n) ELSE NatToBytes(n)

\* JSON.stringify(value)
RECURSIVE JSON_stringify(_), StringifyElems(_, _, _), StringifyMembers(_, _, _)
JSON_stringify(v) ==
  CASE v.t = "num" -> NumToBytes(v.v)
    [] v.t = "null" -> <<110, 117, 108, 108>>
    [] v.t = "str" -> <<34>> \o v.v \o <<34>>
    [] v.t = "arr" -> <<91>> \o StringifyElems(v.v, 1, Len(v.v)) \o <<93>>
    [] v.t = "obj" -> <<123>> \o StringifyMembers(v.v, 1, Len(v.v)) \o <<125>>

\* the elements lo..hi of an array, each but the first after a comma; the
\* range is halved to keep the evaluation shallow
StringifyElems(a, lo, hi) ==
  IF lo > hi THEN <<>>
  ELSE IF lo = hi THEN (IF lo > 1 THEN <<44>> ELSE <<>>) \o JSON_stringify(a[lo])
  ELSE StringifyElems(a, lo, (lo + hi) \div 2)
         \o StringifyElems(a, ((lo + hi) \div 2) + 1, hi)

\* the members lo..hi of an object, in the same way
StringifyMembers(m, lo, hi) ==
  IF lo > hi THEN <<>>
  ELSE IF lo = hi
    THEN (IF lo > 1 THEN <<44>> ELSE <<>>) \o <<34>> \o m[lo][1] \o <<34, 58>>
           \o JSON_stringify(m[lo][2])
  ELSE StringifyMembers(m, lo, (lo + hi) \div 2)
         \o StringifyMembers(m, ((lo + hi) \div 2) + 1, hi)

(***************************************************************************)
(* JSON.parse(text): a recursive-descent parser over the bytes of text.    *)
(* A parse step returns [ok, val, pos]: pos is the index after the value.  *)
(* Fractions, exponents, escapes and the literals true and false are      *)
(* rejected: no text of the model holds them.                              *)
(***************************************************************************)
ParseFail == [ok |-> FALSE, val |-> JUndef, pos |-> 0]

IsWs(b) == b \in {32, 9, 10, 13}
IsDigit(b) == b >= 48 /\ b <= 57

RECURSIVE SkipWs(_, _)
SkipWs(s, i) == IF i <= Len(s) /\ IsWs(s[i]) THEN SkipWs(s, i + 1) ELSE i

\* first index j >= i with s[j] = b, or 0; the text is searched in
\* stretches of growing width
RECURSIVE FindByteFrom(_, _, _, _)
FindByteFrom(s, i, b, width) ==
  IF i > Len(s) THEN 0
  ELSE LET hi == Min(i + width - 1, Len(s))
           hits == {j \in i..hi : s[j] = b}
       IN  IF hits # {} THEN CHOOSE j \in hits : \A k \in hits : j <= k
           ELSE FindByteFrom(s, hi + 1, b, 8 * width)

FindByte(s, i, b) == FindByteFrom(s, i, b, 32)

\* index after the last digit of the run of digits starting at i
RECURSIVE DigitsEnd(_, _)
DigitsEnd(s, i) == IF i <= Len(s) /\ IsDigit(s[i]) THEN DigitsEnd(s, i + 1) ELSE i

RECURSIVE DigitsValue(_, _, _, _)
DigitsValue(s, i, e, acc) ==
  IF i >= e THEN acc ELSE DigitsValue(s, i + 1, e, 10 * acc + (s[i] - 48))

ParseNumber(s, i) ==
  LET neg == s[i] = 45
      d == IF neg THEN i + 1 ELSE i
      e == DigitsEnd(s, d)
  IN  IF e = d THEN ParseFail                          \* no digit
      ELSE IF s[d] = 48 /\ e > d + 1 THEN ParseFail    \* leading zero
      ELSE IF e - d > 9 THEN ParseFail                 \* beyond the model
      ELSE IF e <= Len(s) /\ s[e] \in {46, 101, 69} THEN ParseFail
      ELSE [ok |-> TRUE,
            val |-> JNum(IF neg THEN 0 - DigitsValue(s, d, e, 0)
                                ELSE DigitsValue(s, d, e, 0)),
            pos |-> e]

\* s[i] is the opening quote
ParseString(s, i) ==
  LET j == FindByte(s, i + 1, 34)
  IN  IF j = 0 THEN ParseFail
      ELSE IF \E k \in (i + 1)..(j - 1) : s[k] < 32 \/ s[k] = 92 THEN ParseFail
      ELSE [ok |-> TRUE, val |-> JStr(subarray(s, i, j - 1)), pos |-> j + 1]

RECURSIVE ParseValue(_, _), ParseElems(_, _, _), ParseMembers(_, _, _)
ParseValue(s, i0) ==
  LET i == SkipWs(s, i0)
  IN  IF i > Len(s) THEN ParseFail
      ELSE IF s[i] = 34 THEN ParseString(s, i)
      ELSE IF s[i] = 45 \/ IsDigit(s[i]) THEN ParseNumber(s, i)
      ELSE IF s[i] = 91 THEN
        LET k == SkipWs(s, i + 1)
        IN  IF k <= Len(s) /\ s[k] = 93
            THEN [ok |-> TRUE, val |-> JArr(<<>>), pos |-> k + 1]
            ELSE ParseElems(s, i + 1, <<>>)
      ELSE IF s[i] = 123 THEN
        LET k == SkipWs(s, i + 1)
        IN  IF k <= Len(s) /\ s[k] = 125
            THEN [ok |-> TRUE, val |-> JObj(<<>>), pos |-> k + 1]
            ELSE ParseMembers(s, i + 1, <<>>)
      ELSE IF subarray(s, i - 1, i + 3) = <<110, 117, 108, 108>>
      THEN [ok |-> TRUE, val |-> JNull, pos |-> i + 4]
      ELSE ParseFail

\* the elements of an array, from the one starting at i on
ParseElems(s, i, acc) ==
  LET r == ParseValue(s, i)
  IN  IF ~r.ok THEN ParseFail
      ELSE LET k == SkipWs(s, r.pos)
           IN  IF k > Len(s) THEN ParseFail
               ELSE IF s[k] = 44 THEN ParseElems(s, k + 1, Append(acc, r.val))
               ELSE IF s[k] = 93
                 THEN [ok |-> TRUE, val |-> JArr(Append(acc, r.val)), pos |-> k + 1]
               ELSE ParseFail

\* the members of an object, from the one starting at i on
ParseMembers(s, i, acc) ==
  LET q == SkipWs(s, i)
  IN  IF q > Len(s) \/ s[q] # 34 THEN ParseFail
      ELSE LET key == ParseString(s, q)
           IN  IF ~key.ok THEN ParseFail
               ELSE LET c == SkipWs(s, key.pos)
                    IN  IF c > Len(s) \/ s[c] # 58 THEN ParseFail
                        ELSE LET r == ParseValue(s, c + 1)
                             IN  IF ~r.ok THEN ParseFail
                                 ELSE LET k == SkipWs(s, r.pos)
                                          m == Append(acc, <<key.val.v, r.val>>)
                                      IN  IF k > Len(s) THEN ParseFail
                                          ELSE IF s[k] = 44 THEN ParseMembers(s, k + 1, m)
                                          ELSE IF s[k] = 125
                                            THEN [ok |-> TRUE, val |-> JObj(m), pos |-> k + 1]
                                          ELSE ParseFail

\* JSON.parse(text): [ok, val]; ok = FALSE is the SyntaxError it throws
WholeText(s, r) ==
  IF r.ok /\ SkipWs(s, r.pos) > Len(s)
  THEN [ok |-> TRUE, val |-> r.val]
  ELSE [ok |-> FALSE, val |-> JUndef]

JSON_parse(s) == WholeText(s, ParseValue(s, 1))

(***************************************************************************)
(* TextCodec  (src/src/codecs/text/tcf-codec.ts)                           *)
(***************************************************************************)
TextCodec_MAGIC == s_TCF1
TextCodec_VERSION == 1

\* data[i] with the source's 0-based index
At(buf, i) == buf[i + 1]

\* the inner loop of simpleCompress: the number of bytes equal to data[i]
\* from index i on
RunLengthAt(data, i) ==
  LET other == {j \in (i + 1)..(Len(data) - 1) : At(data, j) # At(data, i)}
  IN  IF other = {} THEN Len(data) - i
      ELSE (CHOOSE j \in other : \A k \in other : j <= k) - i

\* the outer loop of simpleCompress from index i on; `compressed` is a
\* number[] and Buffer.from stores each number modulo 256
RECURSIVE CompressFrom(_, _)
CompressFrom(data, i) ==
  IF ~(i < Len(data)) THEN <<>>
  ELSE LET currentByte == At(data, i)
           runLength == RunLengthAt(data, i)
       IN  (IF runLength > 3
              THEN <<ToUint8(255), ToUint8(currentByte), ToUint8(runLength)>>
              ELSE Repeat(ToUint8(currentByte), runLength))
           \o CompressFrom(data, i + runLength)

simpleCompress(data) == CompressFrom(data, 0)

\* the loop of simpleDecompress from index i on
RECURSIVE DecompressFrom(_, _)
DecompressFrom(compressedData, i) ==
  IF ~(i < Len(compressedData)) THEN <<>>
  ELSE IF At(compressedData, i) = 255 /\ i + 2 < Len(compressedData)
    THEN Repeat(At(compressedData, i + 1), At(compressedData, i + 2))
           \o DecompressFrom(compressedData, i + 3)
    ELSE <<At(compressedData, i)>> \o DecompressFrom(compressedData, i + 1)

simpleDecompress(compressedData) == DecompressFrom(compressedData, 0)

\* createContainer writing the header size with writeUInt32BE
createContainer_bigEndian(MAGIC, header, compressedData) ==
  LET headerData == JSON_stringify(header)
      le == writeUInt32LE(Len(headerData))
  IN  MAGIC \o <<le[4], le[3], le[2], le[1]>> \o headerData \o compressedData

\* the shared body of the three createContainer methods
createContainer(MAGIC, header, compressedData) ==
  LET headerData == JSON_stringify(header)
      headerSize == writeUInt32LE(Len(headerData))
  IN  MAGIC \o headerSize \o headerData \o compressedData

\* the shared body of the three parseContainer methods; name is "TCF",
\* "ICF" or "VCF" and only spells the error messages
Malformed(e) == [ok |-> FALSE, err |-> e, header |-> JUndef, compressedData |-> <<>>]

\* the last three statements of parseContainer: the header text parsed by
\* JSON.parse, and the payload sliced off after it
splitContainer(name, data, headerSize, parsed) ==
  IF ~parsed.ok THEN Malformed(<<"SyntaxError", name>>)
  ELSE [ok |-> TRUE, err |-> <<"", name>>, header |-> parsed.val,
        compressedData |-> subarray(data, 8 + headerSize, Len(data))]

\* parseContainer from the read of the header size on
parseSized(name, data, headerSize) ==
  IF LessThanOffsetPlus(Len(data), 8, headerSize)
    THEN Malformed(<<"Invalid file: header size mismatch", name>>)
  ELSE splitContainer(name, data, headerSize.hi * 16777216 + headerSize.lo,
         JSON_parse(subarray(data, 8, 8 + headerSize.hi * 16777216 + headerSize.lo)))

parseContainer(MAGIC, name, data) ==
  IF Len(data) < 8 THEN Malformed(<<"Invalid file: too small", name>>)
  ELSE IF toStringAscii(subarray(data, 0, 4)) # MAGIC
    THEN Malformed(<<"Invalid magic number", name>>)
  ELSE parseSized(name, data, readUInt32LE(data, 4))

TextCodec_createContainer(header, compressedData) ==
  createContainer(TextCodec_MAGIC, header, compressedData)

TextCodec_parseContainer(tcfData) == parseContainer(TextCodec_MAGIC, "TCF", tcfData)

\* TextCodec.encode stamping the two sizes the wrong way round
TextCodec_encode_sizesSwapped(originalData) ==
  TextCodec_createContainer(
    JObj(<< <<s_magic, JStr(TextCodec_MAGIC)>>,
            <<s_version, JNum(TextCodec_VERSION)>>,
            <<s_flags, JNum(0)>>,
            <<s_originalSize, JNum(Len(simpleCompress(originalData)))>>,
            <<s_compressedSize, JNum(Len(originalData))>>,
            <<s_checksum, JStr(sha256Hex(originalData))>> >>),
    simpleCompress(originalData))

\* TextCodec.encode; originalData is Buffer.from(text.normalize('NFC'), 'utf8')
TextCodec_encode(originalData) ==
  LET compressedData == simpleCompress(originalData)
      header == JObj(<< <<s_magic, JStr(TextCodec_MAGIC)>>,
                        <<s_version, JNum(TextCodec_VERSION)>>,
                        <<s_flags, JNum(0)>>,
                        <<s_originalSize, JNum(Len(originalData))>>,
                        <<s_compressedSize, JNum(Len(compressedData))>>,
                        <<s_checksum, JStr(sha256Hex(originalData))>> >>)
  IN  TextCodec_createContainer(header, compressedData)

\* The outcome of a decode call: ok and the value returned, or the error
\* thrown; interpreted tells whether the call reached the line that first
\* reads the payload.
Thrown(e, reached) == [ok |-> FALSE, err |-> e, value |-> <<>>, interpreted |-> reached]
Returned(v) == [ok |-> TRUE, err |-> <<"", "">>, value |-> v, interpreted |-> TRUE]

\* TextCodec.decode; the value is the bytes of the string returned
\* TextCodec.decode without its checksum verification
TextCodec_verifyChecksum_skipped(header, decompressedData) ==
  Returned(decompressedData)

\* TextCodec.decode comparing only the first two digits of the checksums
TextCodec_verifyChecksum_prefix(header, decompressedData) ==
  IF JGet(header, s_checksum).t # "str"
       \/ subarray(sha256Hex(decompressedData), 0, 2)
            # subarray(JGet(header, s_checksum).v, 0, 2)
    THEN Thrown(<<"checksum mismatch", "TCF">>, TRUE)
  ELSE Returned(decompressedData)

\* the checksum verification of TextCodec.decode and its return
TextCodec_verifyChecksum(header, decompressedData) ==
  IF ~StrictEq(JStr(sha256Hex(decompressedData)), JGet(header, s_checksum))
    THEN Thrown(<<"checksum mismatch", "TCF">>, TRUE)
  ELSE Returned(decompressedData)

\* TextCodec.decode after its call of parseContainer; c is what that call
\* returned or threw
TextCodec_decodeParsed(c) ==
  IF ~c.ok THEN Thrown(c.err, FALSE)
  ELSE IF ~StrictEq(JGet(c.header, s_magic), JStr(TextCodec_MAGIC))
    THEN Thrown(<<"Invalid magic number", "TCF">>, FALSE)
  ELSE IF ~StrictEq(JGet(c.header, s_version), JNum(TextCodec_VERSION))
    THEN Thrown(<<"Unsupported version", "TCF">>, FALSE)
  ELSE TextCodec_verifyChecksum(c.header, simpleDecompress(c.compressedData))

TextCodec_decode(tcfData) == TextCodec_decodeParsed(TextCodec_parseContainer(tcfData))

(***************************************************************************)
(* JavaScript numbers that are not integers.  A number is an exact         *)
(* fraction n/d (d > 0, lowest terms), NaN, +Infinity or -Infinity.  The   *)
(* rounding of a double, and of a Float32Array element, is not modelled.   *)
(***************************************************************************)
Abs(n) == IF n < 0 THEN 0 - n ELSE n

RECURSIVE Gcd(_, _)
Gcd(a, b) == IF b = 0 THEN a ELSE Gcd(b, a % b)

Fin(n, d) ==
  LET g == Gcd(Abs(n), Abs(d))
      sg == IF d < 0 THEN 0 - 1 ELSE 1
  IN  [k |-> "fin", n |-> (sg * n) \div g, d |-> (sg * d) \div g]
NaN == [k |-> "nan", n |-> 0, d |-> 1]
PosInf == [k |-> "inf", n |-> 1, d |-> 1]
NegInf == [k |-> "inf", n |-> 0 - 1, d |-> 1]
Num(n) == [k |-> "fin", n |-> n, d |-> 1]

FNeg(a) == IF a.k = "nan" THEN NaN ELSE [a EXCEPT !.n = 0 - a.n]

FAdd(a, b) ==
  CASE a.k = "nan" \/ b.k = "nan" -> NaN
    [] a.k = "inf" /\ b.k = "inf" -> IF a.n = b.n THEN a ELSE NaN
    [] a.k = "inf" -> a
    [] b.k = "inf" -> b
    [] OTHER -> Fin(a.n * b.d + b.n * a.d, a.d * b.d)

FSub(a, b) == FAdd(a, FNeg(b))

Sign(n) == IF n > 0 THEN 1 ELSE IF n < 0 THEN 0 - 1 ELSE 0

FMul(a, b) ==
  CASE a.k = "nan" \/ b.k = "nan" -> NaN
    [] a.k = "inf" \/ b.k = "inf" ->
         IF a.n = 0 \/ b.n = 0 THEN NaN
         ELSE IF Sign(a.n) * Sign(b.n) > 0 THEN PosInf ELSE NegInf
    [] OTHER -> Fin(a.n * b.n, a.d * b.d)

FDiv(a, b) ==
  CASE a.k = "nan" \/ b.k = "nan" -> NaN
    [] a.k = "inf" /\ b.k = "inf" -> NaN
    [] a.k = "inf" -> IF Sign(a.n) * (IF b.n < 0 THEN 0 - 1 ELSE 1) > 0 THEN PosInf ELSE NegInf
    [] b.k = "inf" -> Num(0)
    [] b.n = 0 -> IF a.n = 0 THEN NaN ELSE IF a.n > 0 THEN PosInf ELSE NegInf
    [] OTHER -> Fin(a.n * b.d, a.d * b.n)

FLess(a, b) ==
  CASE a.k = "nan" \/ b.k = "nan" -> FALSE
    [] a.k = "inf" /\ b.k = "inf" -> a.n < b.n
    [] a.k = "inf" -> a.n < 0
    [] b.k = "inf" -> b.n > 0
    [] OTHER -> a.n * b.d < b.n * a.d

\* Math.round: the nearest integer, a tie going up
MathRound(a) ==
  IF a.k # "fin" THEN a ELSE Num((2 * a.n + a.d) \div (2 * a.d))

\* Math.min(x, y) and Math.max(x, y)
MathMin(a, b) == IF a.k = "nan" \/ b.k = "nan" THEN NaN ELSE IF FLess(b, a) THEN b ELSE a
MathMax(a, b) == IF a.k = "nan" \/ b.k = "nan" THEN NaN ELSE IF FLess(a, b) THEN b ELSE a

\* buffer[i] = x for an integral, NaN or infinite x: NaN is stored as 0
StoreByte(a) == IF a.k = "fin" THEN a.n % 256 ELSE 0

\* a JSON value read as a number: a value that is no number gives NaN
JToNumber(v) == IF v.t = "num" THEN Num(v.v) ELSE IF v.t = "null" THEN Num(0) ELSE NaN

(***************************************************************************)
(* ImageCodec  (src/src/codecs/image/icf-codec.ts)                         *)
(***************************************************************************)
s_ICF1 == <<73, 67, 70, 49>>  \* "ICF1"
s_width == <<119, 105, 100, 116, 104>>  \* "width"
s_height == <<104, 101, 105, 103, 104, 116>>  \* "height"
s_channels == <<99, 104, 97, 110, 110, 101, 108, 115>>  \* "channels"
s_colorSpace == <<99, 111, 108, 111, 114, 83, 112, 97, 99, 101>>  \* "colorSpace"
s_quality == <<113, 117, 97, 108, 105, 116, 121>>  \* "quality"
s_YCoCg == <<89, 67, 111, 67, 103>>  \* "YCoCg"
s_x == <<120>>  \* "x"
s_y == <<121>>  \* "y"
s_data == <<100, 97, 116, 97>>  \* "data"

ImageCodec_MAGIC == s_ICF1
ImageCodec_VERSION == 1
ImageCodec_BLOCK_SIZE == 8

\* rgbToYCoCg: a Float32Array of pixelCount * 3 numbers
rgbToYCoCg(rgbData, width, height, channels) ==
  LET pixelCount == width * height
      px(i) ==
        LET srcOffset == i * channels
            r == FDiv(Num(At(rgbData, srcOffset)), Num(255))
            g == FDiv(Num(At(rgbData, srcOffset + 1)), Num(255))
            b == FDiv(Num(At(rgbData, srcOffset + 2)), Num(255))
            co == FSub(r, b)
            t == FAdd(b, FDiv(co, Num(2)))
            cg == FSub(g, t)
            y == FAdd(t, FDiv(cg, Num(2)))
        IN  <<y, co, cg>>
  IN  [k \in 1..(pixelCount * 3) |-> px((k - 1) \div 3)[((k - 1) % 3) + 1]]

\* Math.max(0, Math.min(255, Math.round(v * 255))) stored in a Buffer
ClampToByte(v) ==
  StoreByte(MathMax(Num(0), MathMin(Num(255), MathRound(FMul(v, Num(255))))))

\* the inverse of the transform that does not undo the lifting steps
ycocgToRgb_noLifting(ycocgData, width, height, channels) ==
  LET pixelCount == width * height
      px(i) ==
        LET srcOffset == i * 3
            y == At(ycocgData, srcOffset)
            co == At(ycocgData, srcOffset + 1)
            cg == At(ycocgData, srcOffset + 2)
            r == FSub(FAdd(y, co), cg)
            g == FAdd(y, cg)
            b == FSub(FSub(y, co), cg)
        IN  <<ClampToByte(r), ClampToByte(g), ClampToByte(b), 255>>
  IN  [k \in 1..(pixelCount * channels) |->
         IF ((k - 1) % channels) + 1 <= 4
           THEN px((k - 1) \div channels)[((k - 1) % channels) + 1]
           ELSE 0]

\* ycocgToRgb: a Buffer of pixelCount * channels bytes
ycocgToRgb(ycocgData, width, height, channels) ==
  LET pixelCount == width * height
      px(i) ==
        LET srcOffset == i * 3
            y == At(ycocgData, srcOffset)
            co == At(ycocgData, srcOffset + 1)
            cg == At(ycocgData, srcOffset + 2)
            t == FSub(y, FDiv(cg, Num(2)))
            g == FAdd(cg, t)
            b == FSub(t, FDiv(co, Num(2)))
            r == FAdd(b, co)
        IN  <<ClampToByte(r), ClampToByte(g), ClampToByte(b), 255>>
  IN  [k \in 1..(pixelCount * channels) |->
         IF ((k - 1) % channels) + 1 <= 4
           THEN px((k - 1) \div channels)[((k - 1) % channels) + 1]
           ELSE 0]

\* the quantization factor both compressBlocks and decompressBlocks compute
qFactorOf(quality) ==
  IF quality < 50 THEN FDiv(Num(50), Num(quality))
  ELSE FSub(Num(2), FDiv(Num(quality), Num(50)))

channelQFactorOf(qFactor, channel) ==
  IF channel = 0 THEN qFactor ELSE FMul(qFactor, Fin(3, 2))

\* extractBlock: blockWidth * blockHeight numbers of one channel
extractBlock(data, width, height, x, y, blockWidth, blockHeight, channel) ==
  [k \in 1..(blockWidth * blockHeight) |->
     LET by == (k - 1) \div blockWidth
         bx == (k - 1) % blockWidth
     IN  At(data, ((y + by) * width + (x + bx)) * 3 + channel)]

\* applyDCT and applyInverseDCT copy their input
applyDCT(blockData, width, height) == blockData
applyInverseDCT(dctData, width, height) == dctData

\* quantize: a number[] of Math.round(dctData[i] * channelQFactor)
quantize(dctData, qFactor, channel) ==
  [i \in 1..Len(dctData) |->
     MathRound(FMul(dctData[i], channelQFactorOf(qFactor, channel)))]

\* dequantize: quantizedData is the JSON array block.data
dequantize(quantizedData, qFactor, channel) ==
  [i \in 1..Len(quantizedData) |->
     FDiv(JToNumber(quantizedData[i]), channelQFactorOf(qFactor, channel))]

\* the three nested loops of compressBlocks from (y, x, channel) on
RECURSIVE CompressBlocksFrom(_, _, _, _, _, _, _)
CompressBlocksFrom(ycocgData, width, height, qFactor, y, x, channel) ==
  IF ~(y < height) THEN <<>>
  ELSE IF ~(x < width)
    THEN CompressBlocksFrom(ycocgData, width, height, qFactor,
                            y + ImageCodec_BLOCK_SIZE, 0, 0)
  ELSE IF ~(channel < 3)
    THEN CompressBlocksFrom(ycocgData, width, height, qFactor,
                            y, x + ImageCodec_BLOCK_SIZE, 0)
  ELSE LET blockWidth == Min(ImageCodec_BLOCK_SIZE, width - x)
           blockHeight == Min(ImageCodec_BLOCK_SIZE, height - y)
           blockData == extractBlock(ycocgData, width, height, x, y,
                                     blockWidth, blockHeight, channel)
           dctData == applyDCT(blockData, blockWidth, blockHeight)
           quantizedData == quantize(dctData, qFactor, channel)
       IN  << [x |-> x, y |-> y, width |-> blockWidth, height |-> blockHeight,
               data |-> quantizedData] >>
           \o CompressBlocksFrom(ycocgData, width, height, qFactor, y, x, channel + 1)

compressBlocks(ycocgData, width, height, quality) ==
  CompressBlocksFrom(ycocgData, width, height, qFactorOf(quality), 0, 0, 0)

\* a quantized coefficient in JSON: Math.round gives an integer, and
\* JSON.stringify writes NaN and the infinities as null
JOfNumber(a) == IF a.k = "fin" THEN JNum(a.n) ELSE JNull

\* the distance between two neighbouring quantization levels of a channel:
\* quantize multiplies a coefficient by channelQFactor and rounds, dequantize
\* divides by it
QuantStep(quality, channel) ==
  FDiv(Num(1), channelQFactorOf(qFactorOf(quality), channel))

\* quantize of one coefficient, for the three channels
QuantizeAll(x, quality) ==
  [channel \in 0..2 |-> quantize(<<x>>, qFactorOf(quality), channel)[1]]

\* dequantize of a quantized coefficient read back from the payload
Reconstruct(x, quality) ==
  [channel \in 0..2 |->
     dequantize(<<JOfNumber(QuantizeAll(x, quality)[channel])>>,
                qFactorOf(quality), channel)[1]]

\* serializeBlocks: JSON.stringify(blocks) as bytes
BlockToJson(b) ==
  JObj(<< <<s_x, JNum(b.x)>>, <<s_y, JNum(b.y)>>, <<s_width, JNum(b.width)>>,
          <<s_height, JNum(b.height)>>,
          <<s_data, JArr([i \in 1..Len(b.data) |-> JOfNumber(b.data[i])])>> >>)

serializeBlocks(blocks) ==
  JSON_stringify(JArr([i \in 1..Len(blocks) |-> BlockToJson(blocks[i])]))

\* deserializeBlocks: JSON.parse of the payload; [ok, val]
deserializeBlocks(data) == JSON_parse(data)

\* a placeBlock that reads blockData with a stride of BLOCK_SIZE
placeBlock_fixedStride(data, width, height, x, y, blockWidth, blockHeight, channel, blockData) ==
  [k \in 1..Len(data) |->
     LET c == (k - 1) % 3
         p == (k - 1) \div 3
         by == (p \div width) - y
         bx == (p % width) - x
         srcIndex == by * ImageCodec_BLOCK_SIZE + bx
     IN  IF c = channel /\ by >= 0 /\ by < blockHeight /\ bx >= 0 /\ bx < blockWidth
           THEN IF srcIndex < Len(blockData) THEN At(blockData, srcIndex) ELSE NaN
           ELSE data[k]]

\* placeBlock: data with the samples of one block written; a sample the
\* block does not hold is undefined, which a Float32Array stores as NaN
placeBlock(data, width, height, x, y, blockWidth, blockHeight, channel, blockData) ==
  [k \in 1..Len(data) |->
     LET c == (k - 1) % 3
         p == (k - 1) \div 3
         by == (p \div width) - y
         bx == (p % width) - x
         srcIndex == by * blockWidth + bx
     IN  IF c = channel /\ by >= 0 /\ by < blockHeight /\ bx >= 0 /\ bx < blockWidth
           THEN IF srcIndex < Len(blockData) THEN At(blockData, srcIndex) ELSE NaN
           ELSE data[k]]

\* blocks[blockIndex] has a data array that dequantize can read
BlockReadable(blocks, blockIndex) ==
  /\ blocks.t = "arr"
  /\ blockIndex < Len(blocks.v)
  /\ JGet(At(blocks.v, blockIndex), s_data).t = "arr"

\* the three nested loops of decompressBlocks from (y, x, channel) on;
\* [ok, data]: ok = FALSE is the TypeError of reading .data of undefined or
\* .length of undefined
RECURSIVE DecompressBlocksFrom(_, _, _, _, _, _, _, _, _)
DecompressBlocksFrom(blocks, width, height, qFactor, ycocgData, blockIndex, y, x, channel) ==
  IF ~(y < height) THEN [ok |-> TRUE, data |-> ycocgData]
  ELSE IF ~(x < width)
    THEN DecompressBlocksFrom(blocks, width, height, qFactor, ycocgData, blockIndex,
                              y + ImageCodec_BLOCK_SIZE, 0, 0)
  ELSE IF ~(channel < 3)
    THEN DecompressBlocksFrom(blocks, width, height, qFactor, ycocgData, blockIndex,
                              y, x + ImageCodec_BLOCK_SIZE, 0)
  ELSE IF ~BlockReadable(blocks, blockIndex) THEN [ok |-> FALSE, data |-> <<>>]
  ELSE LET blockWidth == Min(ImageCodec_BLOCK_SIZE, width - x)
           blockHeight == Min(ImageCodec_BLOCK_SIZE, height - y)
           block == At(blocks.v, blockIndex)
           dequantizedData == dequantize(JGet(block, s_data).v, qFactor, channel)
           spatialData == applyInverseDCT(dequantizedData, blockWidth, blockHeight)
       IN  DecompressBlocksFrom(blocks, width, height, qFactor,
             placeBlock(ycocgData, width, height, x, y, blockWidth, blockHeight,
                        channel, spatialData),
             blockIndex + 1, y, x, channel + 1)

\* the number of blocks the loops of compressBlocks and decompressBlocks
\* visit: three per BLOCK_SIZE x BLOCK_SIZE tile
BlockCount(width, height) ==
  ((width + ImageCodec_BLOCK_SIZE - 1) \div ImageCodec_BLOCK_SIZE)
    * ((height + ImageCodec_BLOCK_SIZE - 1) \div ImageCodec_BLOCK_SIZE) * 3

\* new Float32Array(n): n zeros
Float32Zeros(n) == [i \in 1..n |-> Num(0)]

decompressBlocks(blocks, width, height, quality) ==
  DecompressBlocksFrom(blocks, width, height, qFactorOf(quality),
                       Float32Zeros(width * height * 3), 0, 0, 0, 0)

ImageCodec_createContainer(header, compressedData) ==
  createContainer(ImageCodec_MAGIC, header, compressedData)

ImageCodec_parseContainer(icfData) == parseContainer(ImageCodec_MAGIC, "ICF", icfData)

\* ImageCodec.encode; image is what sharp returns for imagePath: the raw
\* pixel data and info.width, info.height, info.channels
ImageCodec_encode(image, quality) ==
  LET ycocgData == rgbToYCoCg(image.data, image.width, image.height, image.channels)
      compressedBlocks == compressBlocks(ycocgData, image.width, image.height, quality)
      compressedData == serializeBlocks(compressedBlocks)
      header == JObj(<< <<s_magic, JStr(ImageCodec_MAGIC)>>,
                        <<s_version, JNum(ImageCodec_VERSION)>>,
                        <<s_width, JNum(image.width)>>,
                        <<s_height, JNum(image.height)>>,
                        <<s_channels, JNum(image.channels)>>,
                        <<s_colorSpace, JStr(s_YCoCg)>>,
                        <<s_quality, JNum(quality)>>,
                        <<s_compressedSize, JNum(Len(compressedData))>>,
                        <<s_checksum, JStr(sha256Hex(image.data))>> >>)
  IN  ImageCodec_createContainer(header, compressedData)

\* ImageCodec.encode from its check of the dimensions on: the quality is
\* used as it was passed
ImageCodec_encodeChecked(image, quality) ==
  IF image.width = 0 \/ image.height = 0
    THEN Thrown(<<"Cannot determine image dimensions", "ICF">>, FALSE)
  ELSE Returned(ImageCodec_encode(image, quality))

\* a header field used as a loop bound or a size: a number of the model
HeaderNat(header, key) ==
  LET v == JGet(header, key) IN IF v.t = "num" /\ v.v >= 0 THEN v.v ELSE 0

\* Buffer.alloc(width * height * channels) in ycocgToRgb accepts the size:
\* a header without one of the three numbers makes it NaN, which
\* Buffer.alloc rejects
AllocSizeOk(header) ==
  \A key \in {s_width, s_height, s_channels} :
    JGet(header, key).t = "num" /\ JGet(header, key).v >= 0

\* header.quality as decompressBlocks uses it
HeaderQuality(header) ==
  LET v == JGet(header, s_quality) IN IF v.t = "num" THEN v.v ELSE 0

\* ImageCodec.decode; the value is {data, width, height, channels}
\* the end of ImageCodec.decode: the colour transform and the return
ImageCodec_toRgb(ycocgData, width, height, channels, allocOk) ==
  IF ~ycocgData.ok THEN Thrown(<<"TypeError", "ICF">>, TRUE)
  ELSE IF ~allocOk THEN Thrown(<<"RangeError", "ICF">>, TRUE)
  ELSE Returned([data |-> ycocgToRgb(ycocgData.data, width, height, channels),
                 width |-> width, height |-> height, channels |-> channels])

\* ImageCodec.decode from the block decompression on
ImageCodec_decodeBlocks(compressedBlocks, width, height, channels, quality, allocOk) ==
  IF ~compressedBlocks.ok THEN Thrown(<<"SyntaxError", "ICF">>, TRUE)
  ELSE ImageCodec_toRgb(decompressBlocks(compressedBlocks.val, width, height, quality),
                        width, height, channels, allocOk)

\* ImageCodec.decode after its call of parseContainer
ImageCodec_decodeParsed(c) ==
  IF ~c.ok THEN Thrown(c.err, FALSE)
  ELSE IF ~StrictEq(JGet(c.header, s_magic), JStr(ImageCodec_MAGIC))
    THEN Thrown(<<"Invalid magic number", "ICF">>, FALSE)
  ELSE IF ~StrictEq(JGet(c.header, s_version), JNum(ImageCodec_VERSION))
    THEN Thrown(<<"Unsupported version", "ICF">>, FALSE)
  ELSE ImageCodec_decodeBlocks(deserializeBlocks(c.compressedData),
         HeaderNat(c.header, s_width), HeaderNat(c.header, s_height),
         HeaderNat(c.header, s_channels), HeaderQuality(c.header),
         AllocSizeOk(c.header))

ImageCodec_decode(icfData) == ImageCodec_decodeParsed(ImageCodec_parseContainer(icfData))

(***************************************************************************)
(* VideoCodec  (src/src/codecs/video/vcf-codec.ts)                         *)
(***************************************************************************)
s_VCF1 == <<86, 67, 70, 49>>  \* "VCF1"
s_fps == <<102, 112, 115>>  \* "fps"
s_frameCount == <<102, 114, 97, 109, 101, 67, 111, 117, 110, 116>>  \* "frameCount"
s_duration == <<100, 117, 114, 97, 116, 105, 111, 110>>  \* "duration"
s_bitrate == <<98, 105, 116, 114, 97, 116, 101>>  \* "bitrate"
s_gopSize == <<103, 111, 112, 83, 105, 122, 101>>  \* "gopSize"
s_type == <<116, 121, 112, 101>>  \* "type"
s_timestamp == <<116, 105, 109, 101, 115, 116, 97, 109, 112>>  \* "timestamp"
s_size == <<115, 105, 122, 101>>  \* "size"
s_offset == <<111, 102, 102, 115, 101, 116>>  \* "offset"
s_Buffer == <<66, 117, 102, 102, 101, 114>>  \* "Buffer"
s_P == <<80>>  \* "P"
s_I == <<73>>  \* "I"
s_baseLength == <<98, 97, 115, 101, 76, 101, 110, 103, 116, 104>>  \* "baseLength"
s_diff == <<100, 105, 102, 102>>  \* "diff"

VideoCodec_MAGIC == s_VCF1
VideoCodec_VERSION == 1

\* a number that is an integer, as JSON.stringify writes it
JOfInteger(a) == JNum(a.n)

\* compressPFrame: the bytes of JSON.stringify(pFrameData)
compressPFrame(currentFrame, previousFrame, quality) ==
  LET minLength == Min(Len(currentFrame), Len(previousFrame))
      diff == [i \in 1..minLength |-> currentFrame[i] - previousFrame[i]]
      qualityFactor == FDiv(Num(quality), Num(100))
      compressed == [i \in 1..minLength |-> MathRound(FMul(Num(diff[i]), qualityFactor))]
      pFrameData ==
        JObj(<< <<s_type, JStr(s_P)>>,
                <<s_baseLength, JNum(Len(previousFrame))>>,
                <<s_diff, JArr([i \in 1..minLength |-> JOfInteger(compressed[i])])>>,
                <<s_quality, JNum(quality)>> >>)
  IN  JSON_stringify(pFrameData)

\* the loop of encodeFrames from frame i on; frameFiles[i] is the content of
\* the i-th extracted frame file, previousFrame is a Buffer or null
NoFrame == [isNull |-> TRUE, data |-> <<>>]
SomeFrame(d) == [isNull |-> FALSE, data |-> d]

\* a tagging that makes only the first frame an I-frame
frameTypeOf_firstOnly(i, gopSize) == IF i = 0 THEN "I" ELSE "P"

\* (i % gopSize === 0) ? 'I' : 'P' for an index i >= 0: the remainder has the
\* sign of i, and i % 0 is NaN, which is not 0
frameTypeOf(i, gopSize) ==
  IF gopSize = 0 THEN "P"
  ELSE IF i % Abs(gopSize) = 0 THEN "I" ELSE "P"

RECURSIVE EncodeFramesFrom(_, _, _, _, _, _)
EncodeFramesFrom(frameFiles, videoInfo, quality, gopSize, i, previousFrame) ==
  IF ~(i < Len(frameFiles)) THEN <<>>
  ELSE LET frameData == At(frameFiles, i)
           timestamp == (i * 1000) \div videoInfo.fps   \* (i / fps) * 1000; fps is 1
           frameType == frameTypeOf(i, gopSize)
           compressedData ==
             IF frameType = "I" \/ previousFrame.isNull THEN frameData
             ELSE compressPFrame(frameData, previousFrame.data, quality)
       IN  << [type |-> frameType, timestamp |-> timestamp,
               size |-> Len(compressedData), offset |-> 0, data |-> compressedData] >>
           \o EncodeFramesFrom(frameFiles, videoInfo, quality, gopSize, i + 1,
                               IF frameType = "I" THEN SomeFrame(frameData)
                               ELSE previousFrame)

\* an encoder that difference-codes the frames it tags I as well
encodeFrames_keyDiffed(frameFiles, videoInfo, quality, gopSize) ==
  [k \in 1..Len(frameFiles) |->
     [type |-> frameTypeOf(k - 1, gopSize),
      timestamp |-> ((k - 1) * 1000) \div videoInfo.fps,
      size |-> Len(compressPFrame(frameFiles[k], frameFiles[k], quality)),
      offset |-> 0,
      data |-> compressPFrame(frameFiles[k], frameFiles[k], quality)]]

encodeFrames(frameFiles, videoInfo, quality, gopSize) ==
  EncodeFramesFrom(frameFiles, videoInfo, quality, gopSize, 0, NoFrame)

FrameTypeStr(t) == IF t = "I" THEN s_I ELSE s_P

\* JSON.stringify of a Buffer: {"type":"Buffer","data":[...]}
BufferToJson(buf) ==
  JObj(<< <<s_type, JStr(s_Buffer)>>,
          <<s_data, JArr([i \in 1..Len(buf) |-> JNum(buf[i])])>> >>)

\* JSON.stringify(encodedFrames), the text the header checksum is taken of
FramesToJson(frames) ==
  JArr([i \in 1..Len(frames) |->
          JObj(<< <<s_type, JStr(FrameTypeStr(frames[i].type))>>,
                  <<s_timestamp, JNum(frames[i].timestamp)>>,
                  <<s_size, JNum(frames[i].size)>>,
                  <<s_offset, JNum(frames[i].offset)>>,
                  <<s_data, BufferToJson(frames[i].data)>> >>)])

\* an offset loop that never advances currentOffset
OffsetOf_zero(frames, i) == 0

\* the offset loop of serializeFrames: the offset of frame i
RECURSIVE OffsetOf(_, _)
OffsetOf(frames, i) ==
  IF i = 0 THEN 0 ELSE OffsetOf(frames, i - 1) + Len(At(frames, i - 1).data)

RECURSIVE ConcatData(_, _)
ConcatData(frames, i) ==
  IF ~(i < Len(frames)) THEN <<>> ELSE At(frames, i).data \o ConcatData(frames, i + 1)

serializeFrames(frames) ==
  LET frameIndex ==
        JArr([i \in 1..Len(frames) |->
                JObj(<< <<s_type, JStr(FrameTypeStr(frames[i].type))>>,
                        <<s_timestamp, JNum(frames[i].timestamp)>>,
                        <<s_size, JNum(frames[i].size)>>,
                        <<s_offset, JNum(OffsetOf(frames, i - 1))>> >>)])
      indexData == JSON_stringify(frameIndex)
      indexSize == writeUInt32LE(Len(indexData))
      allFrameData == ConcatData(frames, 0)
  IN  indexSize \o indexData \o allFrameData

\* deserializeFrames: [ok, err, frames]; a frame keeps the JSON values of its
\* index entry and the bytes the entry selects.  An offset or size that is
\* no number makes both subarray bounds NaN, which select nothing.
DeserializeFail(e) == [ok |-> FALSE, err |-> e, frames |-> <<>>]

\* the loop of deserializeFrames over the parsed frame index
framesOfIndex(compressedData, frameIndex, frameDataStart) ==
  IF ~frameIndex.ok THEN DeserializeFail(<<"SyntaxError", "VCF">>)
  ELSE IF frameIndex.val.t = "str"     \* for..of a string: its characters
    THEN [ok |-> TRUE, err |-> <<"", "VCF">>,
          frames |-> [i \in 1..Len(frameIndex.val.v) |->
                        [type |-> JUndef, timestamp |-> JUndef, size |-> JUndef,
                         offset |-> JUndef, data |-> <<>>]]]
  ELSE IF frameIndex.val.t # "arr" THEN DeserializeFail(<<"TypeError", "VCF">>)
  ELSE [ok |-> TRUE, err |-> <<"", "VCF">>,
        frames |->
          [i \in 1..Len(frameIndex.val.v) |->
             LET indexEntry == frameIndex.val.v[i]
                 offset == JGet(indexEntry, s_offset)
                 size == JGet(indexEntry, s_size)
             IN  [type |-> JGet(indexEntry, s_type),
                  timestamp |-> JGet(indexEntry, s_timestamp),
                  size |-> size,
                  offset |-> offset,
                  data |->
                    IF offset.t = "num" /\ size.t = "num"
                      THEN subarray(compressedData, frameDataStart + offset.v,
                                    frameDataStart + offset.v + size.v)
                      ELSE <<>>]]]

\* deserializeFrames from the read of the index size on
deserializeSized(compressedData, indexSize) ==
  IF LessThanOffsetPlus(Len(compressedData), 4, indexSize)
    THEN DeserializeFail(<<"Invalid compressed data: index size mismatch", "VCF">>)
  ELSE framesOfIndex(compressedData,
         JSON_parse(subarray(compressedData, 4,
                             4 + indexSize.hi * 16777216 + indexSize.lo)),
         4 + indexSize.hi * 16777216 + indexSize.lo)

deserializeFrames(compressedData) ==
  IF Len(compressedData) < 4
    THEN DeserializeFail(<<"Invalid compressed data: too small", "VCF">>)
  ELSE deserializeSized(compressedData, readUInt32LE(compressedData, 0))

\* the try block of decompressPFrame after its JSON.parse: [ok, data];
\* ok = FALSE is any exception thrown inside the block
applyDiff(parsed, previousFrame) ==
  LET pFrame == parsed.val
      baseLength == JGet(pFrame, s_baseLength)
      diffs == JGet(pFrame, s_diff)
      qualityFactor == FDiv(JToNumber(JGet(pFrame, s_quality)), Num(100))
  IN  IF ~parsed.ok THEN [ok |-> FALSE, data |-> <<>>]
      ELSE IF ~StrictEq(JGet(pFrame, s_type), JStr(s_P)) THEN [ok |-> FALSE, data |-> <<>>]
      ELSE IF baseLength.t # "num" \/ baseLength.v < 0 THEN [ok |-> FALSE, data |-> <<>>]
      ELSE IF diffs.t # "arr" /\ Min(baseLength.v, Len(previousFrame)) > 0
        THEN [ok |-> FALSE, data |-> <<>>]
      ELSE [ok |-> TRUE,
            data |->
              [k \in 1..baseLength.v |->
                 LET i == k - 1
                 IN  IF i < Min(baseLength.v, Len(previousFrame))
                       THEN LET diff == IF i < Len(diffs.v)
                                          THEN FDiv(JToNumber(At(diffs.v, i)), qualityFactor)
                                          ELSE Num(0)
                            IN  StoreByte(MathMax(Num(0), MathMin(Num(255),
                                  FAdd(Num(At(previousFrame, i)), MathRound(diff)))))
                       ELSE 0]]

\* the catch block of decompressPFrame: r is the outcome of the try block
orPreviousFrame(r, previousFrame) == IF r.ok THEN r.data ELSE previousFrame

\* decompressPFrame: the catch block returns previousFrame
decompressPFrame(pFrameData, previousFrame) ==
  orPreviousFrame(applyDiff(JSON_parse(pFrameData), previousFrame), previousFrame)

\* a decoding loop that decodes a P-frame without reference against an empty
\* buffer instead of throwing
RECURSIVE DecodeFramesFrom_lenient(_, _, _, _)
DecodeFramesFrom_lenient(frames, i, previousFrame, written) ==
  IF ~(i < Len(frames)) THEN [ok |-> TRUE, err |-> <<"", "VCF">>, written |-> written]
  ELSE IF StrictEq(At(frames, i).type, JStr(s_I))
    THEN DecodeFramesFrom_lenient(frames, i + 1, SomeFrame(At(frames, i).data),
                                  Append(written, <<i, At(frames, i).data>>))
  ELSE DecodeFramesFrom_lenient(frames, i + 1, previousFrame,
         Append(written, <<i, decompressPFrame(At(frames, i).data, previousFrame.data)>>))

\* a decoding loop that makes every decoded frame the next reference
RECURSIVE DecodeFramesFrom_chained(_, _, _, _)
DecodeFramesFrom_chained(frames, i, previousFrame, written) ==
  IF ~(i < Len(frames)) THEN [ok |-> TRUE, err |-> <<"", "VCF">>, written |-> written]
  ELSE IF StrictEq(At(frames, i).type, JStr(s_I))
    THEN DecodeFramesFrom_chained(frames, i + 1, SomeFrame(At(frames, i).data),
                                  Append(written, <<i, At(frames, i).data>>))
  ELSE IF previousFrame.isNull
    THEN [ok |-> FALSE, err |-> <<"P-frame without previous I-frame", "VCF">>,
          written |-> written]
  ELSE DecodeFramesFrom_chained(
         frames, i + 1,
         SomeFrame(decompressPFrame(At(frames, i).data, previousFrame.data)),
         Append(written, <<i, decompressPFrame(At(frames, i).data, previousFrame.data)>>))

\* the loop of decodeFrames from frame i on: [ok, err, written]; written
\* lists the frame files written so far, each <<i, content>>
RECURSIVE DecodeFramesFrom(_, _, _, _)
DecodeFramesFrom(frames, i, previousFrame, written) ==
  IF ~(i < Len(frames)) THEN [ok |-> TRUE, err |-> <<"", "VCF">>, written |-> written]
  ELSE LET frame == At(frames, i)
       IN  IF StrictEq(frame.type, JStr(s_I))
             THEN DecodeFramesFrom(frames, i + 1, SomeFrame(frame.data),
                                   Append(written, <<i, frame.data>>))
           ELSE IF previousFrame.isNull
             THEN [ok |-> FALSE, err |-> <<"P-frame without previous I-frame", "VCF">>,
                   written |-> written]
           ELSE DecodeFramesFrom(frames, i + 1, previousFrame,
                  Append(written, <<i, decompressPFrame(frame.data, previousFrame.data)>>))

decodeFrames(frames) == DecodeFramesFrom(frames, 0, NoFrame, <<>>)

VideoCodec_createContainer(header, compressedData) ==
  createContainer(VideoCodec_MAGIC, header, compressedData)

VideoCodec_parseContainer(vcfData) == parseContainer(VideoCodec_MAGIC, "VCF", vcfData)

\* VideoCodec.encode: the bytes written to outputPath.  video.frames are the
\* frame files ffmpeg extracts, video.info is what ffprobe reports.
VideoCodec_encode(video, options) ==
  LET frameFiles == video.frames
      encodedFrames == encodeFrames(frameFiles, video.info, options.quality,
                                    options.gopSize)
      compressedData == serializeFrames(encodedFrames)
      header == JObj(<< <<s_magic, JStr(VideoCodec_MAGIC)>>,
                        <<s_version, JNum(VideoCodec_VERSION)>>,
                        <<s_width, JNum(video.info.width)>>,
                        <<s_height, JNum(video.info.height)>>,
                        <<s_fps, JNum(video.info.fps)>>,
                        <<s_frameCount, JNum(Len(frameFiles))>>,
                        <<s_duration, JNum(Len(frameFiles) \div video.info.fps)>>,
                        <<s_bitrate, JNum(options.bitrate)>>,
                        <<s_quality, JNum(options.quality)>>,
                        <<s_gopSize, JNum(options.gopSize)>>,
                        <<s_compressedSize, JNum(Len(compressedData))>>,
                        <<s_checksum,
                          JStr(sha256Hex(JSON_stringify(FramesToJson(encodedFrames))))>> >>)
  IN  VideoCodec_createContainer(header, compressedData)

\* cleanupDirectory(dir) after the frame files in written were created
cleanupDirectory(dir, written) ==
  [i \in 1..Len(written) |-> <<"unlink", dir, written[i][1]>>] \o << <<"rmdir", dir>> >>

\* VideoCodec.decode: [r, ops]; r is the outcome, ops the file-system
\* operations in order.  now is Date.now(); ffmpegOk tells whether ffmpeg
\* builds the output video from the frame files.
writeFiles(tempDir, written) ==
  [i \in 1..Len(written) |-> <<"writeFile", tempDir, written[i][1]>>]

\* the end of the try block of VideoCodec.decode, and its finally block; d
\* is the outcome of decodeFrames.  The value returned is the content of the
\* frame files ffmpeg built the output video from.
VideoCodec_createVideo(d, header, tempDir, ffmpegOk) ==
  [r |-> IF ~d.ok THEN Thrown(d.err, TRUE)
         ELSE IF ~ffmpegOk THEN Thrown(<<"FFmpeg video creation failed", "VCF">>, TRUE)
         ELSE IF JGet(header, s_duration).t # "num"   \* header.duration.toFixed(2)
           THEN Thrown(<<"TypeError", "VCF">>, TRUE)
         ELSE Returned([i \in 1..Len(d.written) |-> d.written[i][2]]),
   ops |-> << <<"mkdir", tempDir>> >> \o writeFiles(tempDir, d.written)
             \o (IF d.ok /\ ffmpegOk THEN << <<"ffmpeg", "outputPath">> >> ELSE <<>>)
             \o cleanupDirectory(tempDir, d.written)]

\* the try block of VideoCodec.decode; frames is the outcome of
\* deserializeFrames
VideoCodec_decodeIndexed(frames, header, tempDir, ffmpegOk) ==
  IF ~frames.ok
    THEN [r |-> Thrown(frames.err, TRUE),
          ops |-> << <<"mkdir", tempDir>> >> \o cleanupDirectory(tempDir, <<>>)]
  ELSE VideoCodec_createVideo(decodeFrames(frames.frames), header, tempDir, ffmpegOk)

\* VideoCodec.decode after its call of parseContainer
VideoCodec_decodeParsed(c, tempDir, ffmpegOk) ==
  IF ~c.ok THEN [r |-> Thrown(c.err, FALSE), ops |-> <<>>]
  ELSE IF ~StrictEq(JGet(c.header, s_magic), JStr(VideoCodec_MAGIC))
    THEN [r |-> Thrown(<<"Invalid magic number", "VCF">>, FALSE), ops |-> <<>>]
  ELSE IF ~StrictEq(JGet(c.header, s_version), JNum(VideoCodec_VERSION))
    THEN [r |-> Thrown(<<"Unsupported version", "VCF">>, FALSE), ops |-> <<>>]
  ELSE VideoCodec_decodeIndexed(deserializeFrames(c.compressedData), c.header,
                                tempDir, ffmpegOk)

VideoCodec_decode(vcfData, now, ffmpegOk) ==
  VideoCodec_decodeParsed(VideoCodec_parseContainer(vcfData),
                          <<"/tmp/vcf_decode_", now>>, ffmpegOk)

(***************************************************************************)
(* The state machine.  One behaviour follows one input of one format       *)
(* through encode, an optional alteration of the stored container, and     *)
(* decode; or it frames one header and payload and parses the frame; or it *)
(* applies one pure function to one input; or it runs two calls of         *)
(* VideoCodec.encode / decode that overlap in time.                        *)
(***************************************************************************)
VARIABLES
  mode,       \* the format of this behaviour: "TCF", "ICF" or "VCF"; the
              \* function applied: "QNT", "RGB", "BLK", "PFR"; or "PAR" for
              \* overlapping calls
  pc,         \* "start", "encoded", "rejected", "decoded", "framed", "applied"
  input,      \* what encode, the function or the calls are given
  container,  \* the container as encode (or createContainer) returned it
  file,       \* the container as stored, which decode is given
  tamper,     \* how file was altered after encode
  result,     \* the outcome of decode
  fsops,      \* the file-system operations of VideoCodec.decode, in order
  framed,     \* the header and payload createContainer was given
  parsed,     \* what the latest call of parseContainer returned or threw
  clock,      \* Date.now()
  tmp,        \* the temporary directories under /tmp and their frame files
  calls       \* the calls of VideoCodec.encode / decode that are in flight

vars == <<mode, pc, input, container, file, tamper, result, fsops, framed, parsed,
          clock, tmp, calls>>

NoTamper == [kind |-> "none", pos |-> 0]
NoResult == [ok |-> FALSE, err |-> <<"not called", "">>, value |-> <<>>, interpreted |-> FALSE]
NotFramed == [header |-> JUndef, payload |-> <<>>]
NotParsed == Malformed(<<"not called", "">>)

RECURSIVE SeqsUpTo(_, _)
SeqsUpTo(S, n) ==
  IF n = 0 THEN {<<>>}
  ELSE LET shorter == SeqsUpTo(S, n - 1)
       IN  shorter \cup {Append(q, b) : q \in {r \in shorter : Len(r) = n - 1}, b \in S}

\* Text inputs.  The bytes are ETX and "a", both one-byte UTF-8 characters
\* that NFC leaves alone.  An input is a short text, or a run of "a" (the
\* shortest that is run-length coded, the longest that fits one count byte,
\* the longest of the model) followed by a short text.
InputBytes == {3, 97}
TextInputs ==
  {Repeat(97, n) \o q : n \in {0, 4}, q \in SeqsUpTo(InputBytes, MaxTextLen)}
  \cup {Repeat(97, n) \o q : n \in {MaxRun - 1, MaxRun}, q \in SeqsUpTo(InputBytes, 1)}

\* Image inputs: what sharp returns for the image file, and the quality
Colours == {<<255, 0, 0>>, <<10, 200, 30>>}
Qualities == {50, 85}

RECURSIVE Flatten(_)
Flatten(ss) == IF ss = <<>> THEN <<>> ELSE Head(ss) \o Flatten(Tail(ss))

ImageInputs ==
  {[image |-> [width |-> w, height |-> h, channels |-> 3, data |-> Flatten(px)],
    quality |-> q] :
     w \in 1..MaxImageWidth, h \in 1..MaxImageHeight,
     px \in UNION {[1..(ww * hh) -> Colours] : ww \in 1..MaxImageWidth,
                                                 hh \in 1..MaxImageHeight},
     q \in Qualities}

\* Video inputs: the frame files ffmpeg extracts, what ffprobe reports, the
\* options of encode and the value of Date.now() when decode runs.  The
\* video is the first frames of one clip.
ClipFrame(i) == <<10 + 2 * i, 20 - i>>
VideoInputs ==
  {[video |-> [frames |-> [i \in 1..n |-> ClipFrame(i - 1)],
               info |-> [width |-> 2, height |-> 2, fps |-> 1]],
    options |-> [quality |-> 85, bitrate |-> 1000000, gopSize |-> g],
    now |-> 1000] :
     n \in 0..MaxFrames, g \in 1..MaxGop}

\* the clips and GOP sizes of the GOP structure: VideoCodec.encode takes
\* options.gopSize as it is passed, zero and negative numbers included
GopSizes == (0 - 1)..MaxGopSize
GopQualities == {85, 100}
GopInputs ==
  {[video |-> [frames |-> [i \in 1..n |-> ClipFrame(i - 1)],
               info |-> [width |-> 2, height |-> 2, fps |-> 1]],
    options |-> [quality |-> q, bitrate |-> 1000000, gopSize |-> g],
    now |-> 1000] :
     n \in 0..MaxGopFrames, g \in GopSizes, q \in GopQualities}

\* offset of the payload in a container that encode made
PayloadStart(c) == 8 + readUInt32LE(c, 4).lo

\* the values a stored byte b may be replaced by: 0xFF, b with its highest
\* bit flipped, b with its lowest bit flipped
Alterations(b) ==
  {255, (b + 128) % 256, IF b % 2 = 0 THEN b + 1 ELSE b - 1} \ {b}

\* byte sequences that may be appended to a stored container
Suffixes == {<<0>>, <<32>>, <<255, 97, 0>>}

\* Overlapping calls of VideoCodec.encode and VideoCodec.decode.  The
\* temporary directory of a call is named after Date.now(); a directory holds
\* the frame files frame_0000.png, frame_0001.png, ... by number.
MaxClock == 1
MaxCallFrames == 2
CallIds == 1..2
FrameNumbers == 0..MaxCallFrames
TempDirs == {<<p, t>> : p \in {"/tmp/vcf_encode_", "/tmp/vcf_decode_"}, t \in 0..MaxClock}
NoDirectory == [exists |-> FALSE, files |-> [k \in FrameNumbers |-> NoFrame]]
NoDirectories == [d \in TempDirs |-> NoDirectory]

\* fs.mkdirSync(dir, { recursive: true }): no error when dir exists
mkdirSync(fs, dir) == [fs EXCEPT ![dir].exists = TRUE]

\* fs.readdirSync(dir).filter(.png).sort(): the numbers of the frame files
readdirSync(fs, dir) ==
  LET present == {k \in FrameNumbers : ~fs[dir].files[k].isNull}
  IN  [j \in 1..Cardinality(present) |->
         CHOOSE k \in present : Cardinality({x \in present : x < k}) = j - 1]

\* cleanupDirectory(dir) on the file system: every file of dir is unlinked
\* and dir removed, if dir exists
cleanupDirectoryIn(fs, dir) ==
  IF fs[dir].exists THEN [fs EXCEPT ![dir] = NoDirectory] ELSE fs

\* a call before it started; at is the await the call is suspended at
IdleCall ==
  [at |-> "idle", dir |-> <<"", 0>>, frames |-> <<>>, i |-> 0, listing |-> <<>>,
   read |-> <<>>, out |-> <<>>, err |-> ""]

\* the two calls: each encodes a clip of its own, or decodes the container
\* an earlier encode wrote for that clip
CallClip(c, n) == [k \in 1..n |-> ClipFrame(3 * (c - 1) + k - 1)]
CallChoices(c) ==
  {[op |-> o,
    video |-> [frames |-> CallClip(c, n), info |-> [width |-> 2, height |-> 2, fps |-> 1]],
    options |-> [quality |-> 100, bitrate |-> 1000000, gopSize |-> 2]] :
     o \in {"encode", "decode"}, n \in 1..MaxCallFrames}
CallInputs == {[calls |-> <<a, b>>] : a \in CallChoices(1), b \in CallChoices(2)}
StoredFile(call) == VideoCodec_encode(call.video, call.options)

\* the loop of encodeFrames suspends at frame j when it awaits compressPFrame
EncodeAwaitsAt(j, gopSize) ==
  /\ frameTypeOf(j, gopSize) = "P"
  /\ \E k \in 0..(j - 1) : frameTypeOf(k, gopSize) = "I"

\* the loop of decodeFrames suspends at frame j when it awaits decompressPFrame
DecodeAwaitsAt(frames, j) == ~StrictEq(At(frames, j).type, JStr(s_I))

\* the least member of a set of numbers, or otherwise when the set is empty
Least(S, otherwise) == IF S = {} THEN otherwise ELSE CHOOSE x \in S : \A y \in S : x <= y

\* what a call that ran alone returns: the container encode writes, the
\* frames decode builds the output video from
AloneOutcome(call) ==
  IF call.op = "encode" THEN StoredFile(call)
  ELSE VideoCodec_decode(StoredFile(call), 0, TRUE).r.value

InitCommon ==
  /\ pc = "start"
  /\ container = <<>>
  /\ file = <<>>
  /\ tamper = NoTamper
  /\ result = NoResult
  /\ fsops = <<>>
  /\ framed = NotFramed
  /\ parsed = NotParsed
  /\ clock = 0
  /\ tmp = NoDirectories
  /\ calls = <<>>

InitText == mode = "TCF" /\ input \in TextInputs /\ InitCommon
InitImage ==
  /\ mode = "ICF"
  /\ input \in {i \in ImageInputs :
                  Len(i.image.data) = i.image.width * i.image.height * 3}
  /\ InitCommon
InitVideo == mode = "VCF" /\ input \in VideoInputs /\ InitCommon

\* the parameters ImageCodec.encode can be called with: every quality, and
\* images of every size from 0 x 0 on, in one colour
ParamQualities == {0 - 1, 0, 1, 50, 85, 100, 101, 200}
UniformImage(w, h, colour) ==
  [width |-> w, height |-> h, channels |-> 3,
   data |-> [k \in 1..(w * h * 3) |-> colour[((k - 1) % 3) + 1]]]
ImageParamInputs ==
  {[image |-> UniformImage(w, h, colour), quality |-> q] :
     w \in 0..MaxImageWidth, h \in 0..MaxImageHeight, colour \in Colours,
     q \in ParamQualities}
InitImageParams == mode = "ICF" /\ input \in ImageParamInputs /\ InitCommon
InitGop == mode = "VCF" /\ input \in GopInputs /\ InitCommon
Init == InitText \/ InitImage \/ InitVideo

EncodeText ==
  /\ mode = "TCF" /\ pc = "start"
  /\ container' = TextCodec_encode(input)
  /\ file' = container'
  /\ pc' = "encoded"
  /\ UNCHANGED <<mode, input, tamper, result, fsops, framed, parsed, clock, tmp, calls>>

\* the caller of ImageCodec.encode: a container is kept, an error is recorded
EncodeOutcome(r) ==
  IF r.ok
    THEN container' = r.value /\ file' = r.value /\ pc' = "encoded" /\ result' = result
    ELSE pc' = "rejected" /\ result' = r /\ UNCHANGED <<container, file>>

EncodeImage ==
  /\ mode = "ICF" /\ pc = "start"
  /\ EncodeOutcome(ImageCodec_encodeChecked(input.image, input.quality))
  /\ UNCHANGED <<mode, input, tamper, fsops, framed, parsed, clock, tmp, calls>>

EncodeVideo ==
  /\ mode = "VCF" /\ pc = "start"
  /\ container' = VideoCodec_encode(input.video, input.options)
  /\ file' = container'
  /\ pc' = "encoded"
  /\ UNCHANGED <<mode, input, tamper, result, fsops, framed, parsed, clock, tmp, calls>>

\* one byte of the stored container is replaced by another value
ReplaceByte ==
  /\ pc = "encoded" /\ tamper.kind = "none"
  /\ \E pos \in 0..(Len(file) - 1) :
       \E val \in Alterations(At(file, pos)) :
          /\ file' = [file EXCEPT ![pos + 1] = val]
          /\ tamper' = [kind |-> "replace", pos |-> pos]
  /\ UNCHANGED <<mode, pc, input, container, result, fsops, framed, parsed, clock, tmp, calls>>

\* the stored container loses its last bytes
Truncate ==
  /\ pc = "encoded" /\ tamper.kind = "none"
  /\ \E n \in 0..(Len(file) - 1) :
          /\ file' = subarray(file, 0, n)
          /\ tamper' = [kind |-> "truncate", pos |-> n]
  /\ UNCHANGED <<mode, pc, input, container, result, fsops, framed, parsed, clock, tmp, calls>>

\* bytes are appended to the stored container
AppendBytes ==
  /\ pc = "encoded" /\ tamper.kind = "none"
  /\ \E sfx \in Suffixes :
          /\ file' = file \o sfx
          /\ tamper' = [kind |-> "append", pos |-> Len(file)]
  /\ UNCHANGED <<mode, pc, input, container, result, fsops, framed, parsed, clock, tmp, calls>>

DecodeText ==
  /\ mode = "TCF" /\ pc = "encoded"
  /\ result' = TextCodec_decode(file)
  /\ parsed' = TextCodec_parseContainer(file)
  /\ pc' = "decoded"
  /\ UNCHANGED <<mode, input, container, file, tamper, fsops, framed, clock, tmp, calls>>

DecodeImage ==
  /\ mode = "ICF" /\ pc = "encoded"
  /\ result' = ImageCodec_decode(file)
  /\ parsed' = ImageCodec_parseContainer(file)
  /\ pc' = "decoded"
  /\ UNCHANGED <<mode, input, container, file, tamper, fsops, framed, clock, tmp, calls>>

DecodeVideo ==
  /\ mode = "VCF" /\ pc = "encoded"
  /\ \E ffmpegOk \in BOOLEAN :
       LET d == VideoCodec_decode(file, input.now, ffmpegOk)
       IN  result' = d.r /\ fsops' = d.ops
  /\ parsed' = VideoCodec_parseContainer(file)
  /\ pc' = "decoded"
  /\ UNCHANGED <<mode, input, container, file, tamper, framed, clock, tmp, calls>>

(***************************************************************************)
(* Framing alone: createContainer on a header record and a payload, then   *)
(* parseContainer on the bytes.                                            *)
(***************************************************************************)
Payloads == {<<>>, <<0>>, <<255, 97, 4>>, <<123, 125>>}
SizeChoices == {0, 255, 70000}
ChecksumChoices == {sha256Hex(<<>>), sha256Hex(<<3, 250>>)}

TextHeaders ==
  {JObj(<< <<s_magic, JStr(TextCodec_MAGIC)>>, <<s_version, JNum(TextCodec_VERSION)>>,
           <<s_flags, JNum(0)>>, <<s_originalSize, JNum(o)>>,
           <<s_compressedSize, JNum(c)>>, <<s_checksum, JStr(k)>> >>) :
     o \in SizeChoices, c \in SizeChoices, k \in ChecksumChoices}

ImageHeaders ==
  {JObj(<< <<s_magic, JStr(ImageCodec_MAGIC)>>, <<s_version, JNum(ImageCodec_VERSION)>>,
           <<s_width, JNum(w)>>, <<s_height, JNum(1)>>, <<s_channels, JNum(ch)>>,
           <<s_colorSpace, JStr(s_YCoCg)>>, <<s_quality, JNum(q)>>,
           <<s_compressedSize, JNum(c)>>, <<s_checksum, JStr(k)>> >>) :
     w \in {1, 640}, ch \in {3, 4}, q \in {1, 100}, c \in SizeChoices,
     k \in ChecksumChoices}

VideoHeaders ==
  {JObj(<< <<s_magic, JStr(VideoCodec_MAGIC)>>, <<s_version, JNum(VideoCodec_VERSION)>>,
           <<s_width, JNum(2)>>, <<s_height, JNum(2)>>, <<s_fps, JNum(f)>>,
           <<s_frameCount, JNum(n)>>, <<s_duration, JNum(n \div f)>>,
           <<s_bitrate, JNum(1000000)>>, <<s_quality, JNum(85)>>,
           <<s_gopSize, JNum(g)>>, <<s_compressedSize, JNum(c)>>,
           <<s_checksum, JStr(k)>> >>) :
     f \in {1, 30}, n \in {0, 60}, g \in {1, 30}, c \in SizeChoices,
     k \in ChecksumChoices}

FrameText ==
  /\ mode = "TCF" /\ pc = "start"
  /\ \E h \in TextHeaders : \E p \in Payloads :
       /\ container' = TextCodec_createContainer(h, p)
       /\ framed' = [header |-> h, payload |-> p]
       /\ parsed' = TextCodec_parseContainer(container')
  /\ pc' = "framed"
  /\ UNCHANGED <<mode, input, file, tamper, result, fsops, clock, tmp, calls>>

FrameImage ==
  /\ mode = "ICF" /\ pc = "start"
  /\ \E h \in ImageHeaders : \E p \in Payloads :
       /\ container' = ImageCodec_createContainer(h, p)
       /\ framed' = [header |-> h, payload |-> p]
       /\ parsed' = ImageCodec_parseContainer(container')
  /\ pc' = "framed"
  /\ UNCHANGED <<mode, input, file, tamper, result, fsops, clock, tmp, calls>>

FrameVideo ==
  /\ mode = "VCF" /\ pc = "start"
  /\ \E h \in VideoHeaders : \E p \in Payloads :
       /\ container' = VideoCodec_createContainer(h, p)
       /\ framed' = [header |-> h, payload |-> p]
       /\ parsed' = VideoCodec_parseContainer(container')
  /\ pc' = "framed"
  /\ UNCHANGED <<mode, input, file, tamper, result, fsops, clock, tmp, calls>>

NextText == EncodeText \/ FrameText \/ ReplaceByte \/ Truncate \/ AppendBytes \/ DecodeText
NextImage == EncodeImage \/ FrameImage \/ ReplaceByte \/ Truncate \/ AppendBytes \/ DecodeImage
NextVideo == EncodeVideo \/ FrameVideo \/ ReplaceByte \/ Truncate \/ AppendBytes \/ DecodeVideo
Next ==
  \/ EncodeText \/ EncodeImage \/ EncodeVideo
  \/ FrameText \/ FrameImage \/ FrameVideo
  \/ ReplaceByte \/ Truncate \/ AppendBytes
  \/ DecodeText \/ DecodeImage \/ DecodeVideo

SpecText == InitText /\ [][NextText]_vars
SpecImage == InitImage /\ [][NextImage]_vars
SpecVideo == InitVideo /\ [][NextVideo]_vars

\* quantization alone: one coefficient of a normalized channel (-1..1 in
\* steps of 1/CoeffSteps) at two qualities q1 < q2
QuantQualities == {1, 25, 49, 50, 51, 85, 100}
Coefficients == {Fin(k, CoeffSteps) : k \in (0 - CoeffSteps)..CoeffSteps}
QuantInputs ==
  {i \in [x : Coefficients, q1 : QuantQualities, q2 : QuantQualities] : i.q1 < i.q2}
InitQuant == mode = "QNT" /\ input \in QuantInputs /\ InitCommon
ApplyQuantize ==
  /\ mode = "QNT" /\ pc = "start"
  /\ result' = [ok |-> TRUE,
                at1 |-> QuantizeAll(input.x, input.q1),
                at2 |-> QuantizeAll(input.x, input.q2),
                back1 |-> Reconstruct(input.x, input.q1),
                back2 |-> Reconstruct(input.x, input.q2)]
  /\ pc' = "applied"
  /\ UNCHANGED <<mode, input, container, file, tamper, fsops, framed, parsed, clock, tmp, calls>>
SpecQuant == InitQuant /\ [][ApplyQuantize]_vars
NextGop == EncodeVideo \/ DecodeVideo
SpecGop == InitGop /\ [][NextGop]_vars

\* the colour transform alone: one pixel, each component a multiple of
\* ComponentStep or one of 1, 254, 255, with and without an alpha channel
Components == {c \in 0..255 : c % ComponentStep = 0} \cup {1, 254, 255}
PixelInputs ==
  {[data |-> <<r, g, b>>, width |-> 1, height |-> 1, channels |-> 3] :
     r \in Components, g \in Components, b \in Components}
  \cup
  {[data |-> <<r, g, b, 255>>, width |-> 1, height |-> 1, channels |-> 4] :
     r \in Components, g \in Components, b \in Components}
InitColour == mode = "RGB" /\ input \in PixelInputs /\ InitCommon
ApplyColour ==
  /\ mode = "RGB" /\ pc = "start"
  /\ result' = Returned(ycocgToRgb(rgbToYCoCg(input.data, input.width, input.height,
                                             input.channels),
                                  input.width, input.height, input.channels))
  /\ pc' = "applied"
  /\ UNCHANGED <<mode, input, container, file, tamper, fsops, framed, parsed, clock, tmp, calls>>
SpecColour == InitColour /\ [][ApplyColour]_vars
NextImageParams == EncodeImage \/ DecodeImage
SpecImageParams == InitImageParams /\ [][NextImageParams]_vars
Spec == Init /\ [][Next]_vars

\* framing alone, for the three formats
NextFrame == FrameText \/ FrameImage \/ FrameVideo
SpecFrame == Init /\ [][NextFrame]_vars

\* offset of the first frame's data in a container that VideoCodec.encode made
FrameDataStart(c) == PayloadStart(c) + 4 + readUInt32LE(c, PayloadStart(c)).lo

\* the block partition alone: compressBlocks on three planes of every size
\* up to MaxPlaneWidth x MaxPlaneHeight, then decompressBlocks on the blocks.
\* Sample k holds 2k and the quality is 50, so that quantize and dequantize
\* give every sample back and a value tells the sample it came from.
MaxPlaneWidth == 17
MaxPlaneHeight == 9
PlaneInputs ==
  {[width |-> w, height |-> h, quality |-> 50,
    data |-> [k \in 1..(w * h * 3) |-> Num(2 * k)]] :
     w \in 1..MaxPlaneWidth, h \in 1..MaxPlaneHeight}
InitBlocks == mode = "BLK" /\ input \in PlaneInputs /\ InitCommon

\* the indices of ycocgData that placeBlock writes for one block
PlacedIndices(width, x, y, blockWidth, blockHeight, channel) ==
  {((y + by) * width + (x + bx)) * 3 + channel :
     by \in 0..(blockHeight - 1), bx \in 0..(blockWidth - 1)}

\* the calls of placeBlock that the loops of decompressBlocks make from
\* (y, x, channel) on, in order: for each the indices it writes
RECURSIVE PlacementsFrom(_, _, _, _, _)
PlacementsFrom(width, height, y, x, channel) ==
  IF ~(y < height) THEN <<>>
  ELSE IF ~(x < width) THEN PlacementsFrom(width, height, y + ImageCodec_BLOCK_SIZE, 0, 0)
  ELSE IF ~(channel < 3) THEN PlacementsFrom(width, height, y, x + ImageCodec_BLOCK_SIZE, 0)
  ELSE << [x |-> x, y |-> y, channel |-> channel,
           written |-> PlacedIndices(width, x, y, Min(ImageCodec_BLOCK_SIZE, width - x),
                                     Min(ImageCodec_BLOCK_SIZE, height - y), channel)] >>
       \o PlacementsFrom(width, height, y, x, channel + 1)

ApplyBlocks ==
  /\ mode = "BLK" /\ pc = "start"
  /\ LET blocks == compressBlocks(input.data, input.width, input.height, input.quality)
     IN  result' =
           [ok |-> TRUE,
            blocks |-> blocks,
            placements |-> PlacementsFrom(input.width, input.height, 0, 0, 0),
            back |-> decompressBlocks(JArr([i \in 1..Len(blocks) |-> BlockToJson(blocks[i])]),
                                      input.width, input.height, input.quality)]
  /\ pc' = "applied"
  /\ UNCHANGED <<mode, input, container, file, tamper, fsops, framed, parsed,
                 clock, tmp, calls>>
SpecBlocks == InitBlocks /\ [][ApplyBlocks]_vars

\* P-frame coding alone: compressPFrame of a frame against a reference at
\* quality 100, then decompressPFrame of the result against the same
\* reference
MaxBufferLen == 2
BufferBytes == {0, 128, 255}
PFrameInputs ==
  [cur : SeqsUpTo(BufferBytes, MaxBufferLen), ref : SeqsUpTo(BufferBytes, MaxBufferLen)]
InitPFrame == mode = "PFR" /\ input \in PFrameInputs /\ InitCommon
ApplyPFrame ==
  /\ mode = "PFR" /\ pc = "start"
  /\ result' = Returned(decompressPFrame(compressPFrame(input.cur, input.ref, 100),
                                         input.ref))
  /\ pc' = "applied"
  /\ UNCHANGED <<mode, input, container, file, tamper, fsops, framed, parsed,
                 clock, tmp, calls>>
SpecPFrame == InitPFrame /\ [][ApplyPFrame]_vars

(***************************************************************************)
(* Overlapping calls.  A call runs from one await to the next in one step; *)
(* the ffmpeg processes it spawns run on their own.                        *)
(***************************************************************************)
InitCalls ==
  /\ mode = "PAR" /\ input \in CallInputs
  /\ pc = "start" /\ container = <<>> /\ file = <<>> /\ tamper = NoTamper
  /\ result = NoResult /\ fsops = <<>> /\ framed = NotFramed /\ parsed = NotParsed
  /\ clock = 0
  /\ tmp = NoDirectories
  /\ calls = [c \in CallIds |-> IdleCall]

Tick ==
  /\ mode = "PAR" /\ clock < MaxClock
  /\ clock' = clock + 1
  /\ UNCHANGED <<mode, pc, input, container, file, tamper, result, fsops, framed, parsed,
                 tmp, calls>>

\* the call ends its try block with an exception
Failing(c, e) == calls' = [calls EXCEPT ![c].at = "failing", ![c].err = e]

\* VideoCodec.encode from the return of getVideoInfo to the await of
\* extractFrames
BeginEncode(c) ==
  /\ mode = "PAR" /\ input.calls[c].op = "encode" /\ calls[c].at = "idle"
  /\ tmp' = mkdirSync(tmp, <<"/tmp/vcf_encode_", clock>>)
  /\ calls' = [calls EXCEPT ![c].at = "extract", ![c].dir = <<"/tmp/vcf_encode_", clock>>]
  /\ UNCHANGED <<mode, pc, input, container, file, tamper, result, fsops, framed, parsed,
                 clock>>

\* the ffmpeg process of extractFrames writes frame_0001.png, ... into the
\* directory, over the files that are there
ExtractFrames(c) ==
  /\ mode = "PAR" /\ input.calls[c].op = "encode" /\ calls[c].at = "extract"
  /\ IF tmp[calls[c].dir].exists
       THEN /\ tmp' = [tmp EXCEPT ![calls[c].dir].files =
                         [k \in FrameNumbers |->
                            IF k \in 1..Len(input.calls[c].video.frames)
                              THEN SomeFrame(input.calls[c].video.frames[k])
                              ELSE @[k]]]
            /\ calls' = [calls EXCEPT ![c].at = "extracted"]
       ELSE /\ tmp' = tmp
            /\ Failing(c, "FFmpeg frame extraction failed")
  /\ UNCHANGED <<mode, pc, input, container, file, tamper, result, fsops, framed, parsed,
                 clock>>

\* VideoCodec.encode from the return of extractFrames, or of compressPFrame
\* for frame i, to the next await of compressPFrame or to the end of the try
\* block: the directory is listed, frame files are read in order, and after
\* the last one the container is written to outputPath
ResumeEncodeFrames(c) ==
  /\ mode = "PAR" /\ input.calls[c].op = "encode" /\ calls[c].at \in {"extracted", "frames"}
  /\ LET call == calls[c]
         listing == IF call.at = "extracted" THEN readdirSync(tmp, call.dir) ELSE call.listing
         from == IF call.at = "extracted" THEN 0 ELSE call.i + 1
         stop == Least({j \in from..(Len(listing) - 1) :
                          EncodeAwaitsAt(j, input.calls[c].options.gopSize)},
                       Len(listing))
         reads == from..Min(stop, Len(listing) - 1)
         read == call.read \o [k \in 1..(Min(stop, Len(listing) - 1) - from + 1) |->
                                tmp[call.dir].files[At(listing, from + k - 1)].data]
     IN  IF (call.at = "extracted" /\ ~tmp[call.dir].exists)
              \/ \E j \in reads : tmp[call.dir].files[At(listing, j)].isNull
           THEN Failing(c, "ENOENT")
         ELSE IF stop < Len(listing)
           THEN calls' = [calls EXCEPT ![c].at = "frames", ![c].i = stop,
                                       ![c].listing = listing, ![c].read = read]
         ELSE calls' = [calls EXCEPT
                          ![c].at = "finishing", ![c].listing = listing, ![c].read = read,
                          ![c].out = VideoCodec_encode(
                                       [frames |-> read, info |-> input.calls[c].video.info],
                                       input.calls[c].options)]
  /\ UNCHANGED <<mode, pc, input, container, file, tamper, result, fsops, framed, parsed,
                 clock, tmp>>

\* VideoCodec.decode from its start to the await of deserializeFrames
BeginDecode(c) ==
  /\ mode = "PAR" /\ input.calls[c].op = "decode" /\ calls[c].at = "idle"
  /\ LET vcf == VideoCodec_parseContainer(StoredFile(input.calls[c]))
         tempDir == <<"/tmp/vcf_decode_", clock>>
     IN  IF ~vcf.ok \/ ~StrictEq(JGet(vcf.header, s_magic), JStr(VideoCodec_MAGIC))
              \/ ~StrictEq(JGet(vcf.header, s_version), JNum(VideoCodec_VERSION))
           THEN /\ tmp' = tmp
                /\ calls' = [calls EXCEPT ![c].at = "done", ![c].err = "Invalid VCF file"]
         ELSE /\ tmp' = mkdirSync(tmp, tempDir)
              /\ IF deserializeFrames(vcf.compressedData).ok
                   THEN calls' = [calls EXCEPT
                                    ![c].at = "indexed", ![c].dir = tempDir,
                                    ![c].frames = deserializeFrames(vcf.compressedData).frames]
                   ELSE calls' = [calls EXCEPT ![c].at = "failing", ![c].dir = tempDir,
                                               ![c].err = "Invalid compressed data"]
  /\ UNCHANGED <<mode, pc, input, container, file, tamper, result, fsops, framed, parsed,
                 clock>>

\* VideoCodec.decode from the return of deserializeFrames, or of
\* decompressPFrame for frame i, to the next await of decompressPFrame or to
\* the spawn of ffmpeg: frame files are written in order
ResumeDecodeFrames(c) ==
  /\ mode = "PAR" /\ input.calls[c].op = "decode" /\ calls[c].at \in {"indexed", "frames"}
  /\ LET call == calls[c]
         plan == decodeFrames(call.frames)
         from == IF call.at = "indexed" THEN 0 ELSE call.i
         stop == Least({j \in (IF call.at = "indexed" THEN 0 ELSE call.i + 1)
                                 ..(Len(plan.written) - 1) :
                          DecodeAwaitsAt(call.frames, j)},
                       Len(plan.written))
     IN  IF from < stop /\ ~tmp[call.dir].exists
           THEN tmp' = tmp /\ Failing(c, "ENOENT")
         ELSE /\ tmp' = [tmp EXCEPT ![call.dir].files =
                           [k \in FrameNumbers |->
                              IF k \in from..(stop - 1)
                                THEN SomeFrame(plan.written[k + 1][2]) ELSE @[k]]]
              /\ IF stop < Len(plan.written)
                   THEN calls' = [calls EXCEPT ![c].at = "frames", ![c].i = stop]
                 ELSE IF plan.ok THEN calls' = [calls EXCEPT ![c].at = "ffmpeg", ![c].i = stop]
                 ELSE Failing(c, plan.err[1])
  /\ UNCHANGED <<mode, pc, input, container, file, tamper, result, fsops, framed, parsed,
                 clock>>

\* the ffmpeg process of createVideoFromFrames reads frame_0000.png, ... up
\* to the first number that is missing and builds the output video
CreateVideoFromFrames(c) ==
  /\ mode = "PAR" /\ input.calls[c].op = "decode" /\ calls[c].at = "ffmpeg"
  /\ LET files == tmp[calls[c].dir].files
         n == Least({k \in FrameNumbers : files[k].isNull}, MaxCallFrames + 1)
     IN  IF n = 0 THEN Failing(c, "FFmpeg video creation failed")
         ELSE calls' = [calls EXCEPT ![c].at = "finishing",
                                     ![c].out = [k \in 1..n |-> files[k - 1].data]]
  /\ UNCHANGED <<mode, pc, input, container, file, tamper, result, fsops, framed, parsed,
                 clock, tmp>>

\* the finally block of VideoCodec.encode and VideoCodec.decode
Cleanup(c) ==
  /\ mode = "PAR" /\ calls[c].at \in {"finishing", "failing"}
  /\ tmp' = cleanupDirectoryIn(tmp, calls[c].dir)
  /\ calls' = [calls EXCEPT ![c].at = "done"]
  /\ UNCHANGED <<mode, pc, input, container, file, tamper, result, fsops, framed, parsed,
                 clock>>

NextCalls ==
  \/ Tick
  \/ \E c \in CallIds :
       \/ BeginEncode(c) \/ ExtractFrames(c) \/ ResumeEncodeFrames(c)
       \/ BeginDecode(c) \/ ResumeDecodeFrames(c) \/ CreateVideoFromFrames(c)
       \/ Cleanup(c)
SpecCalls == InitCalls /\ [][NextCalls]_vars

(***************************************************************************)
(* Properties                                                              *)
(***************************************************************************)

\* C1: TextCodec.decode(TextCodec.encode(b)) succeeds and returns exactly b,
\* for every input b, runs of more than 255 identical bytes included.
C1_TextRoundTrip ==
  (mode = "TCF" /\ pc = "decoded" /\ tamper.kind = "none")
    => (result.ok /\ result.value = input)

\* C2 as stated: after one payload byte of an encoded text container is
\* replaced by a different value, TextCodec.decode fails.
C2_PayloadByteDetected ==
  (mode = "TCF" /\ pc = "decoded" /\ tamper.kind = "replace"
     /\ tamper.pos >= PayloadStart(container))
    => ~result.ok

\* C2 as the code has it: after one payload byte of an encoded text container
\* is replaced by a different value, TextCodec.decode fails or returns the
\* original text; it never returns a different text.
C2_NoWrongText ==
  (mode = "TCF" /\ pc = "decoded" /\ tamper.kind = "replace"
     /\ tamper.pos >= PayloadStart(container))
    => (~result.ok \/ result.value = input)

C2_Witness ==
  /\ mode = "TCF" /\ pc = "decoded" /\ tamper.kind = "replace"
  /\ tamper.pos >= PayloadStart(container)
  /\ ~result.ok
  /\ result.err = <<"checksum mismatch", "TCF">>

\* C3: whatever container TextCodec.decode is given, it returns a value only
\* if the hash of the decompressed payload equals header.checksum, and the
\* value is that decompressed payload; when the two differ (the container
\* having passed the magic and version checks) it throws the checksum error
\* and returns nothing.
C3_ChecksumGate ==
  (mode = "TCF" /\ pc = "decoded") =>
    /\ result.ok =>
         /\ parsed.ok
         /\ StrictEq(JStr(sha256Hex(simpleDecompress(parsed.compressedData))),
                     JGet(parsed.header, s_checksum))
         /\ result.value = simpleDecompress(parsed.compressedData)
    /\ ( /\ parsed.ok
         /\ StrictEq(JGet(parsed.header, s_magic), JStr(TextCodec_MAGIC))
         /\ StrictEq(JGet(parsed.header, s_version), JNum(TextCodec_VERSION))
         /\ ~StrictEq(JStr(sha256Hex(simpleDecompress(parsed.compressedData))),
                      JGet(parsed.header, s_checksum)) )
       => (~result.ok /\ result.err = <<"checksum mismatch", "TCF">>
             /\ result.value = <<>>)

\* a container whose header was altered, so that encode did not make it, is
\* rejected for its checksum
C3_Witness ==
  /\ mode = "TCF" /\ pc = "decoded" /\ tamper.kind = "replace"
  /\ tamper.pos >= 8 /\ tamper.pos < PayloadStart(container)
  /\ parsed.ok
  /\ parsed.compressedData = subarray(container, PayloadStart(container), Len(container))
  /\ result.err = <<"checksum mismatch", "TCF">>

\* C4: after one byte of the serialized blocks of an encoded image container
\* is replaced, ImageCodec.decode does not return a pixel buffer other than
\* the one the unaltered container decodes to.
C4_ImagePayloadVerified ==
  (mode = "ICF" /\ pc = "decoded" /\ tamper.kind = "replace"
     /\ tamper.pos >= PayloadStart(container))
    => (~result.ok \/ result.value = ImageCodec_decode(container).value)

\* C5: after one byte of the frame data of an encoded video container is
\* replaced, VideoCodec.decode does not emit frames other than the ones the
\* unaltered container decodes to.
C5_VideoPayloadVerified ==
  (mode = "VCF" /\ pc = "decoded" /\ tamper.kind = "replace"
     /\ tamper.pos >= FrameDataStart(container))
    => (~result.ok
          \/ result.value = VideoCodec_decode(container, input.now, TRUE).r.value)

\* C6: for each of the three framers, parseContainer(createContainer(h, p))
\* returns a header equal to h field by field and a payload equal to p.
C6_FramingRoundTrip ==
  pc = "framed" =>
    /\ parsed.ok
    /\ parsed.header = framed.header
    /\ parsed.compressedData = framed.payload

C6_Witness ==
  /\ pc = "framed" /\ mode = "VCF"
  /\ framed.payload = <<255, 97, 4>>
  /\ JGet(framed.header, s_compressedSize) = JNum(70000)
  /\ parsed.ok
  /\ parsed.compressedData = <<255, 97, 4>>

\* C7: parseContainer throws one of its three malformed-container errors
\* exactly when the buffer has fewer than 8 bytes, or its first 4 bytes differ
\* from the magic constant of the format, or the declared header length is
\* greater than the number of bytes after offset 8.
C7_MalformedExactly ==
  pc = "decoded" =>
    ( ( \/ Len(file) < 8
        \/ subarray(file, 0, 4) # (CASE mode = "TCF" -> TextCodec_MAGIC
                                     [] mode = "ICF" -> ImageCodec_MAGIC
                                     [] mode = "VCF" -> VideoCodec_MAGIC)
        \/ LessThanOffsetPlus(Len(file), 8, readUInt32LE(file, 4)) )
      <=> ( /\ ~parsed.ok
            /\ parsed.err[1] \in {"Invalid file: too small", "Invalid magic number",
                                  "Invalid file: header size mismatch"}
            /\ parsed.header = JUndef
            /\ parsed.compressedData = <<>> ) )

\* C8: decode returns successfully only if the length of the payload equals
\* header.compressedSize; a container whose payload lost its last bytes, or
\* had bytes appended, after encode is rejected.
C8_SizeValidated ==
  pc = "decoded" =>
    /\ result.ok =>
         StrictEq(JGet(parsed.header, s_compressedSize),
                  JNum(Len(parsed.compressedData)))
    /\ ( \/ tamper.kind = "append"
         \/ (tamper.kind = "truncate" /\ tamper.pos >= PayloadStart(container)) )
       => ~result.ok

\* C9: a container whose first 4 bytes are not the magic constant of the
\* format, or whose header.version is not 1, is rejected by decode before any
\* payload byte is interpreted.
C9_ValidatedBeforePayload ==
  ( /\ pc = "decoded"
    /\ \/ Len(file) < 4
       \/ subarray(file, 0, 4) # (CASE mode = "TCF" -> TextCodec_MAGIC
                                    [] mode = "ICF" -> ImageCodec_MAGIC
                                    [] mode = "VCF" -> VideoCodec_MAGIC)
       \/ (parsed.ok /\ ~StrictEq(JGet(parsed.header, s_version), JNum(1))) )
    => (~result.ok /\ ~result.interpreted)

\* C10: after a byte of the 4-byte magic tag of an encoded container is
\* replaced by another value, decode fails, returns nothing and, for video,
\* does no file-system operation.
C10_MagicChangeNoOutput ==
  (pc = "decoded" /\ tamper.kind = "replace" /\ tamper.pos < 4)
    => (~result.ok /\ result.value = <<>> /\ fsops = <<>>)

\* C11: in the container TextCodec.encode returns, header.originalSize is the
\* byte length of the input and header.compressedSize is the length of the
\* payload; for the empty input originalSize is 0 and TextCodec.decode of the
\* container returns the empty sequence.
C11_HeaderStamped ==
  (mode = "TCF" /\ pc = "decoded" /\ tamper.kind = "none") =>
    /\ parsed.ok
    /\ StrictEq(JGet(parsed.header, s_originalSize), JNum(Len(input)))
    /\ StrictEq(JGet(parsed.header, s_compressedSize),
                JNum(Len(parsed.compressedData)))
    /\ Len(parsed.compressedData) = Len(container) - PayloadStart(container)
    /\ input = <<>> =>
         /\ StrictEq(JGet(parsed.header, s_originalSize), JNum(0))
         /\ result.ok
         /\ result.value = <<>>

C11_Witness ==
  /\ mode = "TCF" /\ pc = "decoded" /\ tamper.kind = "none"
  /\ input = <<>>
  /\ StrictEq(JGet(parsed.header, s_originalSize), JNum(0))
  /\ result.ok /\ result.value = <<>>

\* C12: when TextCodec.decode succeeds on a container whose header declares
\* an original size, the number of bytes it decoded equals
\* header.originalSize.
C12_OriginalSizeReached ==
  (mode = "TCF" /\ pc = "decoded" /\ result.ok
     /\ JGet(parsed.header, s_originalSize).t = "num")
    => StrictEq(JGet(parsed.header, s_originalSize), JNum(Len(result.value)))

\* C13: ImageCodec.encode called with a quality outside 1..100 or with an
\* image whose width or height is zero fails, and returns no container.
C13_ParametersRejected ==
  (mode = "ICF" /\ pc # "start"
     /\ (input.quality \notin 1..100 \/ input.image.width = 0 \/ input.image.height = 0))
    => (pc = "rejected" /\ ~result.ok /\ container = <<>>)

\* C14: for qualities q1 < q2 and every channel, the quantization step at q1
\* is at least the step at q2, and a coefficient that quantizes to zero at q2
\* quantizes to zero at q1.
C14_QualityMonotone ==
  (mode = "QNT" /\ pc = "applied") =>
    \A channel \in 0..2 :
      /\ ~FLess(QuantStep(input.q1, channel), QuantStep(input.q2, channel))
      /\ result.at2[channel] = Num(0) => result.at1[channel] = Num(0)

\* C15: at every quality the quantization step of Co and Cg is at least the
\* step of Y, so a coefficient that quantizes to zero in Y quantizes to zero
\* in Co and Cg.
C15_LumaFiner ==
  (mode = "QNT" /\ pc = "applied") =>
    \A channel \in 1..2 :
      /\ ~FLess(QuantStep(input.q1, channel), QuantStep(input.q1, 0))
      /\ result.at1[0] = Num(0) => result.at1[channel] = Num(0)

\* C16: an image of one colour encoded at quality 85 and decoded differs
\* from the original, in every channel of every pixel, by no more than the
\* largest quantization step of that quality, and by less than the full
\* range of a channel.
C16_BoundedError ==
  (mode = "ICF" /\ pc = "decoded" /\ tamper.kind = "none" /\ input.quality = 85
     /\ \A k \in 1..Len(input.image.data) :
          input.image.data[k] = input.image.data[((k - 1) % 3) + 1])
    => /\ result.ok
       /\ Len(result.value.data) = Len(input.image.data)
       /\ \A k \in 1..Len(input.image.data) :
            /\ \E channel \in 0..2 :
                 ~FLess(FMul(QuantStep(85, channel), Num(255)),
                        Num(Abs(result.value.data[k] - input.image.data[k])))
            /\ Abs(result.value.data[k] - input.image.data[k]) < 255

\* C17: rgbToYCoCg followed by ycocgToRgb on the unmodified Y, Co and Cg
\* values gives back exactly the R, G and B of every pixel.
C17_ColourReversible ==
  (mode = "RGB" /\ pc = "applied") =>
    /\ result.ok
    /\ Len(result.value) = Len(input.data)
    /\ \A c \in 1..3 : result.value[c] = input.data[c]
C17_Witness ==
  /\ mode = "RGB" /\ pc = "applied"
  /\ input.data = <<255, 0, 1>>
  /\ result.value = <<255, 0, 1>>

\* C18: when ImageCodec.decode reads a payload whose number of serialized
\* blocks differs from the count that header.width and header.height imply,
\* it fails and returns no pixel buffer.
C18_BlockCountChecked ==
  (mode = "ICF" /\ pc = "decoded" /\ result.interpreted
     /\ deserializeBlocks(parsed.compressedData).ok
     /\ deserializeBlocks(parsed.compressedData).val.t = "arr"
     /\ Len(deserializeBlocks(parsed.compressedData).val.v)
          # BlockCount(HeaderNat(parsed.header, s_width), HeaderNat(parsed.header, s_height)))
    => ~result.ok

\* the frames of the frame index of a container
IndexedFrames(c) == deserializeFrames(VideoCodec_parseContainer(c).compressedData).frames

\* frame i of frames carries type I exactly when i is a multiple of gopSize
GopTagged(frames, gopSize) ==
  \A i \in 0..(Len(frames) - 1) :
    /\ StrictEq(At(frames, i).type, JStr(s_I)) <=> (i % gopSize = 0)
    /\ StrictEq(At(frames, i).type, JStr(s_P)) <=> (i % gopSize # 0)

\* C19: for gopSize >= 1 the frame index that encodeFrames produced tags
\* frame i as I exactly when i mod gopSize = 0 and as P otherwise, so frame 0
\* is an I-frame.
C19_GopStructure ==
  (mode = "VCF" /\ pc = "encoded" /\ tamper.kind = "none" /\ input.options.gopSize >= 1) =>
    /\ Len(IndexedFrames(container)) = Len(input.video.frames)
    /\ GopTagged(IndexedFrames(container), input.options.gopSize)
C19_Witness ==
  /\ mode = "VCF" /\ pc = "encoded" /\ tamper.kind = "none"
  /\ input.options.gopSize = 3 /\ Len(input.video.frames) = 5
  /\ [i \in 1..5 |-> IndexedFrames(container)[i].type]
       = <<JStr(s_I), JStr(s_P), JStr(s_P), JStr(s_I), JStr(s_P)>>

\* C20: for every gopSize passed in the options and every clip that has a
\* frame, frame 0 is tagged I in the frame index and VideoCodec.decode of the
\* container does not fail with 'P-frame without previous I-frame'.
C20_FirstFrameIsI ==
  (mode = "VCF" /\ pc = "decoded" /\ tamper.kind = "none" /\ Len(input.video.frames) > 0) =>
    /\ StrictEq(IndexedFrames(container)[1].type, JStr(s_I))
    /\ result.err[1] # "P-frame without previous I-frame"

\* C21: for gopSize >= 1 and every quality, VideoCodec.decode of an encoded
\* container emits, for each frame i with i mod gopSize = 0 (the frames
\* tagged I), exactly the bytes of source frame i.
C21_IFramesExact ==
  (mode = "VCF" /\ pc = "decoded" /\ tamper.kind = "none" /\ input.options.gopSize >= 1) =>
    /\ result.ok \/ result.err[1] = "FFmpeg video creation failed"
    /\ result.ok =>
         /\ Len(result.value) = Len(input.video.frames)
         /\ \A i \in 0..(Len(input.video.frames) - 1) :
              StrictEq(At(IndexedFrames(container), i).type, JStr(s_I))
                => At(result.value, i) = At(input.video.frames, i)
C21_Witness ==
  /\ mode = "VCF" /\ pc = "decoded" /\ tamper.kind = "none"
  /\ input.options.gopSize = 3 /\ Len(input.video.frames) = 5
  /\ result.ok
  /\ StrictEq(At(IndexedFrames(container), 3).type, JStr(s_I))
  /\ At(result.value, 3) = ClipFrame(3)
  /\ At(result.value, 0) = ClipFrame(0)

\* the sum of the size fields of index entries 0..i-1
RECURSIVE SumOfSizes(_, _)
SumOfSizes(frames, i) ==
  IF i = 0 THEN 0 ELSE SumOfSizes(frames, i - 1) + At(frames, i - 1).size.v

\* the entries of a frame index are laid end to end over a region of
\* regionLength bytes
Contiguous(frames, regionLength) ==
  /\ \A i \in 0..(Len(frames) - 1) :
       /\ At(frames, i).offset.t = "num" /\ At(frames, i).size.t = "num"
       /\ i = 0 => At(frames, i).offset.v = 0
       /\ i > 0 => /\ At(frames, i).offset.v
                        = At(frames, i - 1).offset.v + At(frames, i - 1).size.v
                   /\ At(frames, i).offset.v > At(frames, i - 1).offset.v
  /\ SumOfSizes(frames, Len(frames)) = regionLength

\* C22: in the payload serializeFrames produced, index entry 0 has offset 0,
\* the offset of every later entry is the offset plus the size of the entry
\* before it, offsets strictly increase, and the sizes add up to the length
\* of the frame data that follows the index.
C22_IndexConsistent ==
  (mode = "VCF" /\ pc = "encoded" /\ tamper.kind = "none") =>
    /\ Len(IndexedFrames(container)) = Len(input.video.frames)
    /\ Contiguous(IndexedFrames(container), Len(container) - FrameDataStart(container))
C22_Witness ==
  /\ mode = "VCF" /\ pc = "encoded" /\ tamper.kind = "none"
  /\ input.options.gopSize = 2 /\ Len(input.video.frames) = 3
  /\ [i \in 1..3 |-> IndexedFrames(container)[i].offset.v]
       = <<0, 2, 2 + IndexedFrames(container)[2].size.v>>
  /\ IndexedFrames(container)[2].size.v > 2
  /\ Len(container) - FrameDataStart(container) = 4 + IndexedFrames(container)[2].size.v

\* the frame list VideoCodec.decode hands to decodeFrames: the outcome of
\* deserializeFrames on the payload of the stored container
DecodedIndex == deserializeFrames(parsed.compressedData)

\* VideoCodec.decode reached its call of decodeFrames
ReachedDecodeFrames ==
  /\ mode = "VCF" /\ pc = "decoded" /\ parsed.ok
  /\ StrictEq(JGet(parsed.header, s_magic), JStr(VideoCodec_MAGIC))
  /\ StrictEq(JGet(parsed.header, s_version), JNum(VideoCodec_VERSION))
  /\ DecodedIndex.ok

\* C23: when the first frame decodeFrames reaches is not an I-frame, so that
\* a P-frame is reached before any I-frame was decoded, VideoCodec.decode
\* fails with 'P-frame without previous I-frame', writes no frame file and
\* returns nothing.
C23_MissingReferenceFatal ==
  (ReachedDecodeFrames /\ Len(DecodedIndex.frames) > 0
     /\ ~StrictEq(DecodedIndex.frames[1].type, JStr(s_I)))
    => /\ ~result.ok
       /\ result.err = <<"P-frame without previous I-frame", "VCF">>
       /\ result.value = <<>>
       /\ \A k \in 1..Len(fsops) : fsops[k][1] \notin {"writeFile", "ffmpeg"}
C23_Witness ==
  /\ ReachedDecodeFrames /\ Len(DecodedIndex.frames) = 2
  /\ tamper.kind = "replace"
  /\ DecodedIndex.frames[1].type = JStr(<<72>>)
  /\ DecodedIndex.frames[2].type = JStr(s_I)
  /\ result.err = <<"P-frame without previous I-frame", "VCF">>
  /\ fsops = << <<"mkdir", <<"/tmp/vcf_decode_", input.now>> >>,
                <<"rmdir", <<"/tmp/vcf_decode_", input.now>> >> >>

\* the value of previousFrame when the loop of decodeFrames reaches frame i:
\* the data of the latest frame of type I before i, or null
RECURSIVE ReferenceAt(_, _)
ReferenceAt(frames, i) ==
  IF i = 0 THEN NoFrame
  ELSE IF StrictEq(At(frames, i - 1).type, JStr(s_I)) THEN SomeFrame(At(frames, i - 1).data)
  ELSE ReferenceAt(frames, i - 1)

\* frame i is a P-frame that has a reference and whose payload is no valid
\* P-frame data: the try block of decompressPFrame throws on it
Undecodable(frames, i) ==
  /\ ~StrictEq(At(frames, i).type, JStr(s_I))
  /\ ~ReferenceAt(frames, i).isNull
  /\ ~applyDiff(JSON_parse(At(frames, i).data), ReferenceAt(frames, i).data).ok

\* C24: when the payload of a P-frame that decodeFrames reaches cannot be
\* decompressed, VideoCodec.decode fails; it does not report success.
C24_NoFallback ==
  (ReachedDecodeFrames
     /\ \E i \in 0..(Len(DecodedIndex.frames) - 1) : Undecodable(DecodedIndex.frames, i))
    => ~result.ok

\* the length of the frame-data region of a serialized payload: what follows
\* the 4-byte index size and the index
RegionLength(compressedData) ==
  Len(compressedData) - 4 - (readUInt32LE(compressedData, 0).hi * 16777216
                               + readUInt32LE(compressedData, 0).lo)

\* the entries of a frame index do not fit a region of regionLength bytes:
\* one reaches past its end, or the sizes do not add up to its length
LengthMismatch(frames, regionLength) ==
  /\ \A i \in 0..(Len(frames) - 1) :
       /\ At(frames, i).offset.t = "num" /\ At(frames, i).size.t = "num"
  /\ \/ \E i \in 0..(Len(frames) - 1) :
          At(frames, i).offset.v + At(frames, i).size.v > regionLength
     \/ SumOfSizes(frames, Len(frames)) # regionLength

\* C25: when the frame index VideoCodec.decode reads does not fit the frame
\* data that follows it (an entry reaches past the end of the region, or the
\* sizes do not add up to its length), decode fails.
C25_LengthMismatchRejected ==
  (ReachedDecodeFrames
     /\ LengthMismatch(DecodedIndex.frames, RegionLength(parsed.compressedData)))
    => ~result.ok

\* C26: VideoCodec.encode of an input that yields zero frames does not
\* return normally and writes no container.
C26_EmptySequenceRejected ==
  (mode = "VCF" /\ Len(input.video.frames) = 0 /\ pc \in {"encoded", "decoded"})
    => container = <<>>

\* the call is between its mkdirSync and the end of its finally block
InFlight(c) == calls[c].at \notin {"idle", "done"}

\* C27: two calls of VideoCodec.encode / decode that are in flight together
\* never use the same temporary directory, and every call ends as it would
\* have ended alone: without error and with the same output.
C27_NoSharedState ==
  mode = "PAR" =>
    /\ \A c1 \in CallIds : \A c2 \in CallIds \ {c1} :
         (InFlight(c1) /\ InFlight(c2)) => calls[c1].dir # calls[c2].dir
    /\ \A c \in CallIds :
         calls[c].at = "done" =>
           (calls[c].err = "" /\ calls[c].out = AloneOutcome(input.calls[c]))

\* C28: in one pass of decodeFrames the reference is the data of the latest
\* I-frame decoded so far: an I-frame is emitted as its data and becomes the
\* reference, a P-frame is reconstructed against the latest I-frame before it
\* and leaves the reference as it is.
C28_ReferenceUpdate ==
  (ReachedDecodeFrames /\ result.ok) =>
    /\ Len(result.value) = Len(DecodedIndex.frames)
    /\ \A i \in 0..(Len(DecodedIndex.frames) - 1) :
         IF StrictEq(At(DecodedIndex.frames, i).type, JStr(s_I))
           THEN At(result.value, i) = At(DecodedIndex.frames, i).data
           ELSE /\ ~ReferenceAt(DecodedIndex.frames, i).isNull
                /\ At(result.value, i)
                     = decompressPFrame(At(DecodedIndex.frames, i).data,
                                        ReferenceAt(DecodedIndex.frames, i).data)
C28_Witness ==
  /\ ReachedDecodeFrames /\ result.ok
  /\ input.options.gopSize = 3 /\ input.options.quality = 85
  /\ Len(input.video.frames) = 4
  /\ ReferenceAt(DecodedIndex.frames, 2) = SomeFrame(ClipFrame(0))
  /\ ReferenceAt(DecodedIndex.frames, 3) = SomeFrame(ClipFrame(0))
  /\ result.value = <<ClipFrame(0), <<12, 19>>, <<14, 18>>, ClipFrame(3)>>

\* the blocks of channel c that hold sample (px, py)
BlocksHolding(blocks, px, py, c) ==
  {i \in 1..Len(blocks) :
     /\ (i - 1) % 3 = c
     /\ px >= blocks[i].x /\ px < blocks[i].x + blocks[i].width
     /\ py >= blocks[i].y /\ py < blocks[i].y + blocks[i].height}

\* C29: for every width and height from 1 on, compressBlocks produces
\* ceil(width/8) * ceil(height/8) * 3 blocks, each 1..8 wide and high and cut
\* at the image edge; every sample of the three planes is held by exactly
\* one block; decompressBlocks takes the blocks in the same order and writes
\* every sample exactly once, with the value of its block.
C29_BlockPartition ==
  (mode = "BLK" /\ pc = "applied") =>
    /\ Len(result.blocks)
         = ((input.width + 7) \div 8) * ((input.height + 7) \div 8) * 3
    /\ \A i \in 1..Len(result.blocks) :
         /\ result.blocks[i].width \in 1..8 /\ result.blocks[i].height \in 1..8
         /\ result.blocks[i].x % 8 = 0 /\ result.blocks[i].y % 8 = 0
         /\ result.blocks[i].width = Min(8, input.width - result.blocks[i].x)
         /\ result.blocks[i].height = Min(8, input.height - result.blocks[i].y)
         /\ Len(result.blocks[i].data) = result.blocks[i].width * result.blocks[i].height
    /\ \A px \in 0..(input.width - 1) : \A py \in 0..(input.height - 1) : \A c \in 0..2 :
         /\ Cardinality(BlocksHolding(result.blocks, px, py, c)) = 1
         /\ \A i \in BlocksHolding(result.blocks, px, py, c) :
              At(result.blocks[i].data,
                 (py - result.blocks[i].y) * result.blocks[i].width + (px - result.blocks[i].x))
                = quantize(<<At(input.data, (py * input.width + px) * 3 + c)>>,
                           qFactorOf(input.quality), c)[1]
    /\ Len(result.placements) = Len(result.blocks)
    /\ \A i \in 1..Len(result.placements) :
         /\ result.placements[i].x = result.blocks[i].x
         /\ result.placements[i].y = result.blocks[i].y
         /\ result.placements[i].channel = (i - 1) % 3
    /\ \A k \in 0..(Len(input.data) - 1) :
         Cardinality({i \in 1..Len(result.placements) : k \in result.placements[i].written}) = 1
    /\ result.back.ok
    /\ result.back.data = input.data
C29_Witness ==
  /\ mode = "BLK" /\ pc = "applied"
  /\ input.width = 17 /\ input.height = 9
  /\ Len(result.blocks) = 18
  /\ [x |-> result.blocks[7].x, y |-> result.blocks[7].y,
      width |-> result.blocks[7].width, height |-> result.blocks[7].height]
       = [x |-> 16, y |-> 0, width |-> 1, height |-> 8]
  /\ [x |-> result.blocks[18].x, y |-> result.blocks[18].y,
      width |-> result.blocks[18].width, height |-> result.blocks[18].height]
       = [x |-> 16, y |-> 8, width |-> 1, height |-> 1]
  /\ result.back.data = input.data

\* C30: for all byte buffers cur and ref, of equal or different lengths,
\* decompressPFrame(compressPFrame(cur, ref, 100), ref) equals cur.
C30_PFrameRoundTrip ==
  (mode = "PFR" /\ pc = "applied") => result.value = input.cur
====
